---- MODULE Spec2Model ----
(***************************************************************************)
(* Verification model of the kas-free classification pipeline (service     *)
(* worker): the message dispatcher, handleAnalyzeImage, the two-stage      *)
(* analyzeImage, the result cache of CacheManager / AdvancedCacheManager   *)
(* and the ErrorRecoveryManager consulted by the pipeline's catch clause.  *)
(*                                                                         *)
(* Risk scores are held in hundredths (0.3 is 30): the backends return     *)
(* severity / 5, that is 0, 20, 40, 60, 80 or 100.                         *)
(***************************************************************************)
EXTENDS Integers, Sequences, FiniteSets, TLC

(***************************************************************************)
(* Bounds of the model                                                     *)
(***************************************************************************)
\* classification requests (ANALYZE_IMAGE messages) the model follows
NumRequests == 1

\* callers of handleError that may be inside the call at the same time: two,
\* so that one call can run between the two halves of another
Handlers == {1, 2}

\* handleError calls followed in all
MaxCalls == 5

\* cache entries present when smartCleanup runs, at most
MaxEntries == 12

CachedUrls == 1..MaxEntries

\* getAnalysisResult calls followed around one smartCleanup call
MaxGets == 2

\* response times recorded in all while the timeout is being computed
MaxSamples == 6

MaxRecords == 102

MaxRows == 11

BATCH_SIZE == 5

MaxAdded == 2

MaxInits == 3

MaxTimerIds == 4

MaxTicks == 2

\* AdaptiveTimeoutManager: minTimeout, maxTimeout, defaultTimeout, historySize
minTimeout == 3000

maxTimeout == 30000

defaultTimeout == 15000

historySize == 100

\* times.length < 5
MinSamples == 5

\* MIN_KEEP: smartCleanup keeps at least this many entries
MinKeep == 10

\* the span of the recency score, 24 hours in milliseconds
Day == 86400000

\* Date.now() when smartCleanup runs
now == 100000000

Requests == 1..NumRequests

\* the posts the requests are about: every request of the model is for the same
\* post, so that requests meet in the cache, the hash cache and the error counters
Urls == {"post"}

(***************************************************************************)
(* Program constants                                                       *)
(***************************************************************************)
\* ErrorRecoveryManager is constructed with maxRetries: 3
maxRetries == 3

\* ErrorRecoveryManager.maxHistorySize
maxHistorySize == 100

\* the number of attempts the backend calls of the analyzers make: one fetch
AnalyzerAttempts == 1

\* the number of retries ApiClient would make (maxRetries of ApiClient)
ApiClientMaxRetries == 3

\* ApiClient.baseDelay and the cap of calculateDelay, in milliseconds
baseDelay == 1000

capDelay == 10000

\* an error value: its name and the keywords its message contains
NoError == [name |-> "none", words |-> {}]

Msg(text) == [name |-> "message", words |-> {text}]

\* a stage result (primaryResult / secondaryResult of analyzeImage)
NoResult == [riskScore |-> 0, source |-> "none"]

\* riskScore = severity / 5 for a match, 0 for no match; the model draws the
\* backend's answer from no match, severity 2 and severity 4
Scores == {0, 40, 80}

\* DEFAULT_SETTINGS.thresholds, and a second pair the options page can save
DefaultThresholds == [safeMax |-> 30, cautionMax |-> 60]

ThresholdChoices == {DefaultThresholds, [safeMax |-> 40, cautionMax |-> 80]}

DEFAULT_SETTINGS == [enabled |-> TRUE, cacheEnabled |-> TRUE, thresholds |-> DefaultThresholds]

\* the settings object collectSettingsFromUI sends (enabled is always true)
UiSettings(cacheEnabled, thresholds) ==
    [enabled |-> TRUE, cacheEnabled |-> cacheEnabled, thresholds |-> thresholds]

(***************************************************************************)
(* Errors and their classification                                         *)
(***************************************************************************)
\* The exceptions raised inside the try block of handleAnalyzeImage. The callees of
\* that block (fetchPostImage, both stages of analyzeImage, the cache managers, the
\* performance monitor) catch what they raise themselves, so an exception reaches
\* the catch clause only as a fault of the environment; one is drawn here for each
\* recovery answer handleError can give: NetworkError, TimeoutError, ApiKeyError
\* and an error without a strategy.
InjectedErrors ==
    { [name |-> "TypeError", words |-> {"fetch"}],
      [name |-> "Error",     words |-> {"timeout"}],
      [name |-> "Error",     words |-> {"401"}],
      [name |-> "TypeError", words |-> {}] }

\* the first test that matches decides; words are the substrings the tests look
\* for in the lower-cased message, IdbNames the error names that contain "idb"
IdbNames == {"IDBError"}

classifyError(error) ==
    IF error.name = "TypeError" /\ "fetch" \in error.words THEN "NetworkError"
    ELSE IF error.words \cap {"timeout", "time exceeded"} # {} THEN "TimeoutError"
    ELSE IF error.words \cap {"401", "403", "api key", "unauthorized"} # {} THEN "ApiKeyError"
    ELSE IF error.name \in IdbNames \/ error.words \cap {"indexeddb", "database"} # {}
         THEN "IndexedDBError"
    ELSE IF error.words \cap {"memory", "out of"} # {} THEN "OutOfMemoryError"
    ELSE IF error.words \cap {"service worker", "worker"} # {} THEN "ServiceWorkerError"
    ELSE IF error.words \cap {"429", "rate limit"} # {} THEN "RateLimitError"
    ELSE "UnknownError"

ErrorTypes == {"NetworkError", "TimeoutError", "ApiKeyError", "IndexedDBError",
               "OutOfMemoryError", "ServiceWorkerError", "RateLimitError", "UnknownError"}

VARIABLES
    ready,          \* initialize() has loaded the settings and built the managers
    settings,       \* currentSettings (as persisted by saveSettings)
    cache,          \* chrome.storage CACHE object: url -> NoEntry or [result, fresh]
    hashCache,      \* chrome.storage HASH_CACHE object: url -> NoEntry or a score
    accessCount,    \* AdvancedCacheManager.accessCount: url -> count, 0 = no key
    errorCounts,    \* ErrorRecoveryManager.errorCounts: <<type, url>> -> count
    errorHistory,   \* ErrorRecoveryManager.errorHistory: sequence of error types
    pc,             \* position of each request inside handleAnalyzeImage
    url,            \* postUrl of each request
    primary,        \* analyzeImage's primaryResult and status
    result,         \* the result analyzeImage returned, to be cached
    snap,           \* the cache object setCachedResult read and is about to write
    resp,           \* what sendResponse was given
    trace,          \* history of the request: what the pipeline observed and called
    fpc,            \* ApiClient.fetchWithRetry: position of the call
    attempt,        \* fetchWithRetry's loop variable
    flog,           \* how the attempts made so far ended, in order
    lastDelay,      \* the delay awaited before the attempt in progress
    recorded,       \* response times given to timeoutManager.recordResponseTime
    fout,           \* how the call ended for its caller
    handler,        \* the handleError calls in progress, one per caller
    lastAccess,     \* AdvancedCacheManager.lastAccess: time of the last access, 0 = no entry
    sweep,          \* the smartCleanup call: its position, its victims, what was read later
    history,        \* AdaptiveTimeoutManager.history: the response times of each endpoint
    persisted,      \* chrome.storage.local.adaptiveTimeoutHistory
    level,          \* the response time the endpoints of this run are near, in ms
    flights,        \* fetchWithTimeout calls in flight: position, timer, controller.signal, outcome
    postRows,       \* content script: the post rows of the list and how far processPostRow is
    listRun,        \* content script: processPostList's loop
    managers,       \* the AdvancedCacheManager objects made so far, each with its cleanupTimer
    timers,         \* the interval timers of the worker: ids issued, timers scheduled, sweeps run
    writers,        \* setCachedResult calls in progress: position, key, the cache object read
    health          \* what the last getHealthStatus call returned

vars == <<ready, settings, cache, hashCache, accessCount, errorCounts, errorHistory,
          pc, url, primary, result, snap, resp, trace>>

\* the state of one ApiClient call
fetchVars == <<fpc, attempt, flog, lastDelay, recorded, fout>>

\* what the classification pipeline leaves alone
cleanupVars == <<lastAccess, sweep>>

timeoutVars == <<history, persisted, level>>

flightVars == <<flights, postRows, listRun>>

serviceVars == <<managers, timers, writers, health>>

otherVars == <<fetchVars, handler, cleanupVars, timeoutVars, flightVars, serviceVars>>

allVars == <<vars, otherVars>>

\* no ApiClient call has been made
NoOutcome == [kind |-> "none", name |-> "none", status |-> 0, retryable |-> FALSE]

FetchQuiet ==
    /\ fpc = "idle"
    /\ attempt = 0
    /\ flog = <<>>
    /\ lastDelay = 0
    /\ recorded = 0
    /\ fout = [kind |-> "none", outcome |-> NoOutcome]

(***************************************************************************)
(* Pure functions of the pipeline                                          *)
(***************************************************************************)
\* comparisons the wrong way round
determineStatus_inverted(riskScore, thresholds) ==
    IF riskScore > thresholds.safeMax THEN "safe"
    ELSE IF riskScore > thresholds.cautionMax THEN "caution"
    ELSE "danger"

determineStatus(riskScore, thresholds) ==
    IF riskScore < thresholds.safeMax THEN "safe"
    ELSE IF riskScore < thresholds.cautionMax THEN "caution"
    ELSE "danger"

\* the primary result preferred to the secondary one
buildFinalResult_primaryWins(p, secondary, status) ==
    [kind      |-> "assessment",
     status    |-> status,
     riskScore |-> p.riskScore,
     primary   |-> p,
     secondary |-> secondary,
     source    |-> p.source,
     error     |-> NoError]

buildFinalResult(p, secondary, status) ==
    LET mainResult == IF secondary # NoResult THEN secondary ELSE p
    IN  [kind      |-> "assessment",
         status    |-> status,
         riskScore |-> mainResult.riskScore,
         primary   |-> p,
         secondary |-> secondary,
         source    |-> mainResult.source,
         error     |-> NoError]

\* a fallback that blocks instead of passing
safeFallbackResult_blocking == [riskScore |-> 100, source |-> "hash-check-failed"]

\* the object analyzeImage builds when the hash check threw
safeFallbackResult == [riskScore |-> 0, source |-> "hash-check-failed"]

\* HashChecker.transformResult / NsfwjsServerAnalyzer.transformCheckResult
transformResult(score) == [riskScore |-> score, source |-> "hash-db"]

transformCheckResult(score) == [riskScore |-> score, source |-> "nsfw-server-check"]

\* { error, userFriendly } objects without a risk assessment
ErrorOnly(error) ==
    [kind |-> "errorOnly", status |-> "none", riskScore |-> 0, primary |-> NoResult,
     secondary |-> NoResult, source |-> "none", error |-> error]

\* { status, riskScore: 0, categories: {}, error, userFriendly } objects
ErrorResult(status, error) ==
    [kind |-> "assessment", status |-> status, riskScore |-> 0, primary |-> NoResult,
     secondary |-> NoResult, source |-> "none", error |-> error]

\* an exception that left handleMessage: sendResponse was never called with a result
Uncaught(error) ==
    [kind |-> "thrown", status |-> "none", riskScore |-> 0, primary |-> NoResult,
     secondary |-> NoResult, source |-> "none", error |-> error]

NoResponse == ErrorOnly(NoError)

\* a dispatcher without its try/catch
handleMessageCatch_rethrow(error) == Uncaught(error)

\* the catch clause of handleMessage: any exception becomes an error response
handleMessageCatch(error) == ErrorOnly(Msg("unknown-error"))

(***************************************************************************)
(* The result cache: storage.js getCachedResult / setCachedResult behind   *)
(* CacheManager and AdvancedCacheManager                                   *)
(***************************************************************************)
NoEntry == [present |-> FALSE, fresh |-> FALSE, result |-> NoResponse]

NoHash == [present |-> FALSE, score |-> 0]

EmptyCache == [u \in Urls |-> NoEntry]

\* the age test the wrong way round
getCachedResult_invertedTtl(c, u) ==
    IF c[u].present /\ ~c[u].fresh THEN c[u] ELSE NoEntry

\* storage.js getCachedResult: a stored entry not older than cacheDuration
getCachedResult(c, u) ==
    IF c[u].present /\ c[u].fresh THEN c[u] ELSE NoEntry

\* CacheManager.getAnalysisResult: null when caching is switched off
getAnalysisResult(c, s, u) ==
    IF ~s.cacheEnabled THEN NoEntry ELSE getCachedResult(c, u)

\* AdvancedCacheManager.getAnalysisResult: a hit counts an access
countAccess(ac, hit, u) ==
    IF hit THEN [ac EXCEPT ![u] = @ + 1] ELSE ac

\* an overwrite that counts as an access
initAccess_counts(ac, u) == [ac EXCEPT ![u] = @ + 1]

\* AdvancedCacheManager.setAnalysisResult: accessCount = 1 on the first insert
initAccess(ac, u) ==
    IF ac[u] = 0 THEN [ac EXCEPT ![u] = 1] ELSE ac

(***************************************************************************)
(* ErrorRecoveryManager                                                    *)
(***************************************************************************)
\* window.kasFreeDB as seen by the IndexedDBError strategy: the manager runs
\* in the service worker, where window is not defined
windowKasFreeDB == FALSE

Recovery(success, action, data) ==
    [success |-> success, action |-> action, hasData |-> data.present, data |-> data.result]

NoRecovery == Recovery(FALSE, "none", NoEntry)

\* a caller that is not inside handleError
NoCall == [pc |-> "idle", error |-> NoError, count |-> 0, nth |-> 0, res |-> NoRecovery]

HandlersQuiet == handler = [h \in Handlers |-> NoCall]

\* no smartCleanup call in progress
NoSweep == [pc |-> "idle", toDelete |-> <<>>, next |-> 1, returned |-> 0,
            before |-> <<>>, gets |-> 0, got |-> <<>>,
            puts |-> 0, last |-> [key |-> 0, stored |-> FALSE]]

CleanupQuiet ==
    /\ lastAccess = [u \in Urls |-> 0]
    /\ sweep = NoSweep

\* the hosts requests are sent to
Endpoints == {"api", "cdn"}

\* no response time recorded or saved
NoHistory == [e \in Endpoints |-> <<>>]

NothingPersisted == [has |-> FALSE, history |-> NoHistory]

\* concurrent calls of fetchWithTimeout
Flights == {1, 2, 3}

NoFlight == [pc |-> "idle", timer |-> "none", aborted |-> FALSE, out |-> NoOutcome]

Rows == 1..MaxRows

NoRun == [pc |-> "idle", i |-> 0, n |-> 0]

\* no request in flight, no list being processed
FlightQuiet ==
    /\ flights = [c \in Flights |-> NoFlight]
    /\ postRows = [r \in Rows |-> "none"]
    /\ listRun = NoRun

\* overlapping calls of setCachedResult
Writers == {1, 2}

NoWriter == [pc |-> "idle", key |-> 0, read |-> <<>>]

NoTimers == [issued |-> 0, scheduled |-> {}, ticks |-> 0, owner |-> 0]

\* no getHealthStatus call made yet
NoHealth == [status |-> "none", totalErrors |-> 0, recentErrors |-> 0,
             errorRate |-> 0, activeRetries |-> 0]

\* no cache manager made yet, no write in progress
ServiceQuiet ==
    /\ managers = <<>>
    /\ timers = NoTimers
    /\ writers = [w \in Writers |-> NoWriter]
    /\ health = NoHealth

TimeoutQuiet ==
    /\ history = NoHistory
    /\ persisted = NothingPersisted
    /\ level = 0

\* the registered strategy's answer: whether a strategy exists, its action, its data
\* (the smartCleanup call of the OutOfMemoryError strategy removes nothing from a
\* cache of fewer than eleven entries)
strategyResult(errorType, c, s, u) ==
    CASE errorType = "NetworkError"       -> [has |-> TRUE, action |-> "retry", data |-> NoEntry]
      [] errorType = "TimeoutError"       ->
            LET cached == getAnalysisResult(c, s, u)
            IN  IF cached.present
                THEN [has |-> TRUE, action |-> "fallback", data |-> cached]
                ELSE [has |-> TRUE, action |-> "fail", data |-> NoEntry]
      [] errorType = "IndexedDBError"     ->
            IF windowKasFreeDB
            THEN [has |-> TRUE, action |-> "retry", data |-> NoEntry]
            ELSE [has |-> TRUE, action |-> "fail", data |-> NoEntry]
      [] errorType = "ApiKeyError"        -> [has |-> TRUE, action |-> "fallback", data |-> NoEntry]
      [] errorType = "OutOfMemoryError"   -> [has |-> TRUE, action |-> "retry", data |-> NoEntry]
      [] errorType = "ServiceWorkerError" -> [has |-> TRUE, action |-> "restart", data |-> NoEntry]
      [] OTHER                            -> [has |-> FALSE, action |-> "retry", data |-> NoEntry]

\* handleError: the new errorCounts and the recovery object it returns
handleErrorCount(ec, errorType, u) == ec[<<errorType, u>>] + 1

handleErrorResult(ec, error, c, s, u) ==
    LET errorType == classifyError(error)
        count     == handleErrorCount(ec, errorType, u)
        st        == strategyResult(errorType, c, s, u)
    IN  IF count > maxRetries THEN Recovery(FALSE, "fail", NoEntry)
        ELSE IF st.has THEN Recovery(st.action # "fail", st.action, st.data)
        ELSE Recovery(FALSE, "retry", NoEntry)

handleErrorCounts(ec, error, c, s, u) ==
    LET errorType == classifyError(error)
        count     == handleErrorCount(ec, errorType, u)
        st        == strategyResult(errorType, c, s, u)
    IN  IF count <= maxRetries /\ st.has /\ st.action \in {"retry", "fallback"}
        THEN [ec EXCEPT ![<<errorType, u>>] = 0]
        ELSE [ec EXCEPT ![<<errorType, u>>] = count]

recordError_dropsNewest(hist, errorType) ==
    IF Len(hist) >= maxHistorySize THEN hist ELSE Append(hist, errorType)

recordError(hist, errorType) ==
    LET h == Append(hist, errorType)
    IN  IF Len(h) > maxHistorySize THEN Tail(h) ELSE h

\* a catch clause that ignores the recovered data
catchResult_dropsData(recovery, error) == ErrorResult("error", error)

\* what the catch clause of handleAnalyzeImage returns for a recovery object
catchResult(recovery, error) ==
    IF recovery.success /\ recovery.hasData THEN recovery.data
    ELSE ErrorResult("error", error)

(***************************************************************************)
(* State machine                                                           *)
(***************************************************************************)
\* how one backend fetch of an analyzer ends
FetchFailures == {"status503", "status404"}

\* ApiClient.isRetryableStatus
RetryableFailures == {"status503"}

\* fpThr and deepThr are the thresholds determineStatus read for the stage's score
NoTrace ==
    [hit |-> FALSE, fpOut |-> "none", fpCalls |-> 0, fpScore |-> 0, fpThr |-> DefaultThresholds,
     deepOut |-> "none", deepCalls |-> 0, deepScore |-> 0, deepThr |-> DefaultThresholds,
     raised |-> NoError, recovery |-> NoRecovery,
     readFailed |-> FALSE, writeFailed |-> FALSE]

NoPrimary == [res |-> NoResult, status |-> "none"]

\* what chrome.storage may hold from earlier runs of the worker
StoredEntries ==
    { NoEntry,
      [present |-> TRUE, fresh |-> TRUE,
       result |-> buildFinalResult(transformResult(80), transformCheckResult(80), "danger")] }

StoredHashes == {NoHash, [present |-> TRUE, score |-> 40]}

Init ==
    /\ ready = FALSE
    /\ settings \in {[DEFAULT_SETTINGS EXCEPT !.thresholds = t] : t \in ThresholdChoices}
    /\ cache \in [Urls -> StoredEntries]
    /\ hashCache \in [Urls -> StoredHashes]
    /\ accessCount = [u \in Urls |-> 0]
    /\ errorCounts = [k \in ErrorTypes \X Urls |-> 0]
    /\ errorHistory = <<>>
    /\ pc = [r \in Requests |-> "idle"]
    /\ url = [r \in Requests |-> "post"]
    /\ primary = [r \in Requests |-> NoPrimary]
    /\ result = [r \in Requests |-> NoResponse]
    /\ snap = [r \in Requests |-> EmptyCache]
    /\ resp = [r \in Requests |-> NoResponse]
    /\ trace = [r \in Requests |-> NoTrace]
    /\ FetchQuiet
    /\ HandlersQuiet
    /\ CleanupQuiet
    /\ TimeoutQuiet
    /\ FlightQuiet
    /\ ServiceQuiet

\* initialize(): builds the managers; a new AdvancedCacheManager and a new
\* ErrorRecoveryManager start with empty maps
Initialize ==
    /\ ready' = TRUE
    /\ accessCount' = [u \in Urls |-> 0]
    /\ errorCounts' = [k \in ErrorTypes \X Urls |-> 0]
    /\ errorHistory' = <<>>
    /\ UNCHANGED <<settings, cache, hashCache, pc, url, primary, result, snap, resp, trace>>
    /\ UNCHANGED otherVars

\* handleUpdateSettings: the options page saves a complete settings object,
\* which replaces currentSettings
UpdateSettings(cacheEnabled, thresholds) ==
    /\ UiSettings(cacheEnabled, thresholds) # settings
    /\ settings' = UiSettings(cacheEnabled, thresholds)
    /\ UNCHANGED <<ready, cache, hashCache, accessCount, errorCounts, errorHistory,
                   pc, url, primary, result, snap, resp, trace>>
    /\ UNCHANGED otherVars

\* handleToggleExtension
ToggleExtension(enabled) ==
    /\ enabled # settings.enabled
    /\ settings' = [settings EXCEPT !.enabled = enabled]
    /\ UNCHANGED <<ready, cache, hashCache, accessCount, errorCounts, errorHistory,
                   pc, url, primary, result, snap, resp, trace>>
    /\ UNCHANGED otherVars

\* a stored entry grows older than cacheDuration
Expire(u) ==
    /\ cache[u].present /\ cache[u].fresh
    /\ cache' = [cache EXCEPT ![u].fresh = FALSE]
    /\ UNCHANGED <<ready, settings, hashCache, accessCount, errorCounts, errorHistory,
                   pc, url, primary, result, snap, resp, trace>>
    /\ UNCHANGED otherVars

Finish(r, answer) ==
    /\ pc' = [pc EXCEPT ![r] = "done"]
    /\ resp' = [resp EXCEPT ![r] = answer]

\* handleMessage dispatching ANALYZE_IMAGE: handleAnalyzeImage up to the cache check
Receive(r, u) ==
    /\ pc[r] = "idle"
    /\ url' = [url EXCEPT ![r] = u]
    /\ IF ~ready
       THEN \* initialize() is still awaiting storage and currentSettings is null:
            \* the TypeError of line 483 reaches handleMessage's catch
            /\ Finish(r, handleMessageCatch(Msg("not-initialized")))
            /\ UNCHANGED <<accessCount, trace>>
       ELSE IF ~settings.enabled
       THEN /\ Finish(r, ErrorOnly(Msg("disabled")))
            /\ UNCHANGED <<accessCount, trace>>
       ELSE LET cached == getAnalysisResult(cache, settings, u)
            IN  /\ accessCount' = countAccess(accessCount, cached.present, u)
                /\ trace' = [trace EXCEPT ![r].hit = cached.present]
                /\ IF cached.present
                   THEN Finish(r, cached.result)
                   ELSE /\ pc' = [pc EXCEPT ![r] = "fetchPost"]
                        /\ UNCHANGED resp
    /\ UNCHANGED <<ready, settings, cache, hashCache, errorCounts, errorHistory,
                   primary, result, snap>>
    /\ UNCHANGED otherVars

\* fetchPostImage: the image URL of the post, or null
FetchPost(r, found) ==
    /\ pc[r] = "fetchPost"
    /\ IF found
       THEN /\ pc' = [pc EXCEPT ![r] = "hash"]
            /\ UNCHANGED resp
       ELSE Finish(r, ErrorResult("unchecked", Msg("no-image")))
    /\ UNCHANGED <<ready, settings, cache, hashCache, accessCount, errorCounts, errorHistory,
                   url, primary, result, snap, trace>>
    /\ UNCHANGED otherVars

\* the catch clause of handleAnalyzeImage, for an exception raised in its try
\* block: handleError, then the recovered data or the error result
CatchError(r, error) ==
    /\ pc[r] = "fetchPost"
    /\ LET u        == url[r]
           recovery == handleErrorResult(errorCounts, error, cache, settings, u)
       IN  /\ errorCounts' = handleErrorCounts(errorCounts, error, cache, settings, u)
           /\ errorHistory' = recordError(errorHistory, classifyError(error))
           /\ accessCount' = countAccess(accessCount, recovery.hasData, u)
           /\ trace' = [trace EXCEPT ![r].raised = error, ![r].recovery = recovery]
           /\ Finish(r, catchResult(recovery, error))
    /\ UNCHANGED <<ready, settings, cache, hashCache, url, primary, result, snap>>
    /\ UNCHANGED otherVars

\* an analyzeImage that never escalates
AfterPrimary_noEscalation(r, p) ==
    LET q == IF p = NoResult THEN safeFallbackResult ELSE p
        status == IF p = NoResult THEN "safe" ELSE determineStatus(p.riskScore, settings.thresholds)
    IN  /\ primary' = [primary EXCEPT ![r] = [res |-> q, status |-> status]]
        /\ result' = [result EXCEPT ![r] = buildFinalResult(q, NoResult, status)]
        /\ pc' = [pc EXCEPT ![r] = "store"]

\* analyzeImage after the first stage: terminal when safe or when the stage failed
AfterPrimary(r, p) ==
    IF p = NoResult
    THEN /\ primary' = [primary EXCEPT ![r] = [res |-> safeFallbackResult, status |-> "safe"]]
         /\ result' = [result EXCEPT ![r] = buildFinalResult(safeFallbackResult, NoResult, "safe")]
         /\ pc' = [pc EXCEPT ![r] = "store"]
    ELSE LET status == determineStatus(p.riskScore, settings.thresholds)
         IN  /\ primary' = [primary EXCEPT ![r] = [res |-> p, status |-> status]]
             /\ IF status = "safe"
                THEN /\ result' = [result EXCEPT ![r] = buildFinalResult(p, NoResult, status)]
                     /\ pc' = [pc EXCEPT ![r] = "store"]
                ELSE /\ pc' = [pc EXCEPT ![r] = "deep"]
                     /\ UNCHANGED result

\* a fingerprint result taken without looking whether one is stored
HashCached_unconditional(r) ==
    /\ pc[r] = "hash"
    /\ trace' = [trace EXCEPT ![r].fpOut = "cached", ![r].fpScore = hashCache[url[r]].score,
                              ![r].fpThr = settings.thresholds]
    /\ AfterPrimary(r, transformResult(hashCache[url[r]].score))
    /\ UNCHANGED <<ready, settings, cache, hashCache, accessCount, errorCounts, errorHistory,
                   url, snap, resp>>
    /\ UNCHANGED otherVars

\* analyzeImageWithHash answered from the hash cache: no backend call
HashCached(r) ==
    /\ pc[r] = "hash"
    /\ hashCache[url[r]].present
    /\ trace' = [trace EXCEPT ![r].fpOut = "cached", ![r].fpScore = hashCache[url[r]].score,
                              ![r].fpThr = settings.thresholds]
    /\ AfterPrimary(r, transformResult(hashCache[url[r]].score))
    /\ UNCHANGED <<ready, settings, cache, hashCache, accessCount, errorCounts, errorHistory,
                   url, snap, resp>>
    /\ UNCHANGED otherVars

\* analyzeImageWithHash finds no stored fingerprint result and goes on to the
\* reporter id, the hashing and the backend call, each of them awaited
HashMiss(r) ==
    /\ pc[r] = "hash"
    /\ ~hashCache[url[r]].present
    /\ pc' = [pc EXCEPT ![r] = "hashCall"]
    /\ UNCHANGED <<ready, settings, cache, hashCache, accessCount, errorCounts, errorHistory,
                   url, primary, result, snap, resp, trace>>
    /\ UNCHANGED otherVars

\* analyzeImageWithHash fails before the backend is called (reporter id, hashing)
HashPrepFail(r) ==
    /\ pc[r] = "hashCall"
    /\ trace' = [trace EXCEPT ![r].fpOut = "prepfail"]
    /\ AfterPrimary(r, NoResult)
    /\ UNCHANGED <<ready, settings, cache, hashCache, accessCount, errorCounts, errorHistory,
                   url, snap, resp>>
    /\ UNCHANGED otherVars

\* HashChecker.check: one fetch of /api/check/hash that answers with a score
HashOk(r, score) ==
    /\ pc[r] = "hashCall"
    /\ trace' = [trace EXCEPT ![r].fpOut = "ok", ![r].fpCalls = @ + AnalyzerAttempts,
                              ![r].fpScore = score, ![r].fpThr = settings.thresholds]
    /\ hashCache' = [hashCache EXCEPT ![url[r]] = [present |-> TRUE, score |-> score]]
    /\ AfterPrimary(r, transformResult(score))
    /\ UNCHANGED <<ready, settings, cache, accessCount, errorCounts, errorHistory,
                   url, snap, resp>>
    /\ UNCHANGED otherVars

\* HashChecker.check: the fetch fails or answers with an error status; check throws
HashFail(r, failure) ==
    /\ pc[r] = "hashCall"
    /\ trace' = [trace EXCEPT ![r].fpOut = failure, ![r].fpCalls = @ + AnalyzerAttempts]
    /\ AfterPrimary(r, NoResult)
    /\ UNCHANGED <<ready, settings, cache, hashCache, accessCount, errorCounts, errorHistory,
                   url, snap, resp>>
    /\ UNCHANGED otherVars

\* a failed second stage turned into an error result
primaryStands_asError(r) ==
    /\ result' = [result EXCEPT ![r] = ErrorResult("error", Msg("deep-analysis-failed"))]
    /\ pc' = [pc EXCEPT ![r] = "store"]

\* the second stage ends without a secondary result: the primary result stands
primaryStands(r) ==
    /\ result' = [result EXCEPT ![r] = buildFinalResult(primary[r].res, NoResult, primary[r].status)]
    /\ pc' = [pc EXCEPT ![r] = "store"]

\* getOrCreateReporterId or imageUrlToBase64 throws: nsfwServer.check is not reached
DeepPrepFail(r) ==
    /\ pc[r] = "deep"
    /\ trace' = [trace EXCEPT ![r].deepOut = "prepfail"]
    /\ primaryStands(r)
    /\ UNCHANGED <<ready, settings, cache, hashCache, accessCount, errorCounts, errorHistory,
                   url, primary, snap, resp>>
    /\ UNCHANGED otherVars

\* NsfwjsServerAnalyzer.check: the fetch fails or answers with an error status
DeepFail(r, failure) ==
    /\ pc[r] = "deep"
    /\ trace' = [trace EXCEPT ![r].deepOut = failure, ![r].deepCalls = @ + AnalyzerAttempts]
    /\ primaryStands(r)
    /\ UNCHANGED <<ready, settings, cache, hashCache, accessCount, errorCounts, errorHistory,
                   url, primary, snap, resp>>
    /\ UNCHANGED otherVars

\* NsfwjsServerAnalyzer.check answers: the final status is that of its score
DeepOk(r, score) ==
    /\ pc[r] = "deep"
    /\ LET secondary   == transformCheckResult(score)
           finalStatus == determineStatus(secondary.riskScore, settings.thresholds)
       IN  result' = [result EXCEPT ![r] = buildFinalResult(primary[r].res, secondary, finalStatus)]
    /\ trace' = [trace EXCEPT ![r].deepOut = "ok", ![r].deepCalls = @ + AnalyzerAttempts,
                              ![r].deepScore = score, ![r].deepThr = settings.thresholds]
    /\ pc' = [pc EXCEPT ![r] = "store"]
    /\ UNCHANGED <<ready, settings, cache, hashCache, accessCount, errorCounts, errorHistory,
                   url, primary, snap, resp>>
    /\ UNCHANGED otherVars

\* cacheManager.setAnalysisResult, first half: setCachedResult reads the cache object
StoreRead(r) ==
    /\ pc[r] = "store"
    /\ IF ~settings.cacheEnabled
       THEN /\ accessCount' = initAccess(accessCount, url[r])
            /\ Finish(r, result[r])
            /\ UNCHANGED snap
       ELSE /\ snap' = [snap EXCEPT ![r] = cache]
            /\ pc' = [pc EXCEPT ![r] = "storeWrite"]
            /\ UNCHANGED <<accessCount, resp>>
    /\ UNCHANGED <<ready, settings, cache, hashCache, errorCounts, errorHistory,
                   url, primary, result, trace>>
    /\ UNCHANGED otherVars

\* second half: setStorage writes the object back (or fails and is skipped), the
\* access index is initialised and handleAnalyzeImage returns the result
StoreWrite(r, stored) ==
    /\ pc[r] = "storeWrite"
    /\ cache' = IF stored
                THEN [snap[r] EXCEPT ![url[r]] = [present |-> TRUE, fresh |-> TRUE, result |-> result[r]]]
                ELSE cache
    /\ accessCount' = initAccess(accessCount, url[r])
    /\ snap' = [snap EXCEPT ![r] = EmptyCache]
    /\ trace' = [trace EXCEPT ![r].writeFailed = ~stored]
    /\ Finish(r, result[r])
    /\ UNCHANGED <<ready, settings, hashCache, errorCounts, errorHistory,
                   url, primary, result>>
    /\ UNCHANGED otherVars

Next ==
    \/ Initialize
    \/ \E ce \in BOOLEAN, t \in ThresholdChoices : UpdateSettings(ce, t)
    \/ \E b \in BOOLEAN : ToggleExtension(b)
    \/ \E u \in Urls : Expire(u)
    \/ \E r \in Requests, u \in Urls : Receive(r, u)
    \/ \E r \in Requests, found \in BOOLEAN : FetchPost(r, found)
    \/ \E r \in Requests, e \in InjectedErrors : CatchError(r, e)
    \/ \E r \in Requests : HashCached(r)
    \/ \E r \in Requests : HashMiss(r)
    \/ \E r \in Requests : HashPrepFail(r)
    \/ \E r \in Requests, s \in Scores : HashOk(r, s)
    \/ \E r \in Requests, f \in FetchFailures : HashFail(r, f)
    \/ \E r \in Requests : DeepPrepFail(r)
    \/ \E r \in Requests, f \in FetchFailures : DeepFail(r, f)
    \/ \E r \in Requests, s \in Scores : DeepOk(r, s)
    \/ \E r \in Requests : StoreRead(r)
    \/ \E r \in Requests, stored \in BOOLEAN : StoreWrite(r, stored)

Spec == Init /\ [][Next]_vars

(***************************************************************************)
(* Properties                                                              *)
(***************************************************************************)
Done(r) == pc[r] = "done"

\* the request holds the result analyzeImage returned (being cached, or sent)
Returned(r) == pc[r] \in {"store", "storeWrite", "done"}

Answer(r) == IF Done(r) THEN resp[r] ELSE result[r]

\* the fingerprint stage produced a score (from the backend or the hash cache)
FingerprintScored(r) == trace[r].fpOut \in {"ok", "cached"}

FingerprintFailed(r) == trace[r].fpOut \in {"prepfail"} \cup FetchFailures

\* C1: every answer given for an ANALYZE_IMAGE message is a result object that
\* carries a risk assessment or an error field; no exception leaves the dispatcher.
C1_NeverThrows ==
    \A r \in Requests :
        Done(r) =>
            /\ resp[r].kind # "thrown"
            /\ \/ resp[r].kind = "assessment" /\ resp[r].status \in {"safe", "caution", "danger", "unchecked", "error"}
               \/ resp[r].error # NoError

\* a request that arrived before initialize() had run: handleAnalyzeImage threw,
\* and the dispatcher answered with an error object
C1_Witness ==
    \E r \in Requests :
        Done(r) /\ ~ready /\ resp[r].kind = "errorOnly" /\ resp[r].error = Msg("unknown-error")

\* C2: a fingerprint score strictly below safeMax ends the analysis: the deep
\* analysis backend is never called for the request and the status returned is safe.
C2_SafeShortCircuit ==
    \A r \in Requests :
        (FingerprintScored(r) /\ trace[r].fpScore < trace[r].fpThr.safeMax) =>
            /\ pc[r] # "deep"
            /\ trace[r].deepCalls = 0
            /\ trace[r].deepOut = "none"
            /\ Returned(r) => Answer(r).status = "safe" /\ Answer(r).riskScore = trace[r].fpScore
            /\ Done(r) => resp[r].error = NoError

C2_Witness ==
    \E r \in Requests :
        /\ Done(r) /\ trace[r].fpOut = "ok" /\ trace[r].fpScore = 0
        /\ resp[r].status = "safe" /\ trace[r].deepCalls = 0

\* C3: when the deep analysis was called and answered, the result's score, source
\* and status are those of the deep analysis result, not of the fingerprint result.
C3_DeepSupersedes ==
    \A r \in Requests :
        (Returned(r) /\ trace[r].deepOut = "ok") =>
            /\ Answer(r).riskScore = trace[r].deepScore
            /\ Answer(r).source = "nsfw-server-check"
            /\ Answer(r).secondary = transformCheckResult(trace[r].deepScore)
            /\ Answer(r).status = determineStatus(trace[r].deepScore, trace[r].deepThr)

C3_Witness ==
    \E r \in Requests :
        /\ Done(r) /\ trace[r].fpScore = 40 /\ trace[r].deepOut = "ok" /\ trace[r].deepScore = 80
        /\ resp[r].riskScore = 80 /\ resp[r].status = "danger"

\* C4 as stated: a fingerprint score at or above safeMax always leads to a call of
\* the deep analysis backend before the result is returned.
C4_AlwaysEscalates ==
    \A r \in Requests :
        (Returned(r) /\ FingerprintScored(r) /\ trace[r].fpScore >= trace[r].fpThr.safeMax) =>
            trace[r].deepCalls >= 1

\* C4 amended: a fingerprint score at or above safeMax always enters the deep stage;
\* the backend is called unless preparing the request (reporter id, image encoding)
\* fails, and then the fingerprint result is returned.
C4_EscalatesUnlessPrepFails ==
    \A r \in Requests :
        (Returned(r) /\ FingerprintScored(r) /\ trace[r].fpScore >= trace[r].fpThr.safeMax) =>
            \/ trace[r].deepCalls >= 1
            \/ /\ trace[r].deepOut = "prepfail"
               /\ Answer(r).riskScore = trace[r].fpScore
               /\ Answer(r).secondary = NoResult

C4_Witness ==
    \E r \in Requests :
        /\ Done(r) /\ trace[r].fpOut = "ok" /\ trace[r].fpScore = trace[r].fpThr.safeMax
        /\ trace[r].deepCalls = 1

Held(u) == settings.cacheEnabled /\ cache[u].present /\ cache[u].fresh

\* the step by which request r starts for identifier u
Starts(r, u) == pc[r] = "idle" /\ pc'[r] # "idle" /\ url'[r] = u

\* the step ends the request without a backend call
EndsUncalled(r) ==
    /\ pc'[r] = "done"
    /\ trace'[r].fpCalls = 0 /\ trace'[r].fpOut = "none"
    /\ trace'[r].deepCalls = 0 /\ trace'[r].deepOut = "none"

HitAnswer(r, u) == EndsUncalled(r) /\ resp'[r] = cache[u].result

C7_DeepFailureKeepsFingerprint ==
    \A r \in Requests :
        (Returned(r) /\ trace[r].deepOut \in FetchFailures) =>
            /\ trace[r].deepCalls >= 1
            /\ Answer(r).riskScore = trace[r].fpScore
            /\ Answer(r).status = determineStatus(trace[r].fpScore, trace[r].fpThr)
            /\ Answer(r).secondary = NoResult
            /\ Answer(r).kind = "assessment"
            /\ Answer(r).error = NoError

C7_Witness ==
    \E r \in Requests :
        /\ Done(r) /\ trace[r].deepOut = "status503" /\ trace[r].fpScore = 40
        /\ resp[r].riskScore = 40 /\ resp[r].status = "caution"

\* C8: for an exception caught by handleAnalyzeImage, handleError is consulted; a
\* fallback that carries data is returned as is, and a fail gives the error result
\* with the exception's message.
C8_RecoveryOutcome ==
    \A r \in Requests :
        (Done(r) /\ trace[r].raised # NoError) =>
            /\ trace[r].recovery # NoRecovery
            /\ (trace[r].recovery.action = "fallback" /\ trace[r].recovery.hasData)
                  => resp[r] = trace[r].recovery.data
            /\ trace[r].recovery.action = "fail"
                  => resp[r] = ErrorResult("error", trace[r].raised)

\* a timeout answered with the cached result of the same post
C8_Witness ==
    \E r \in Requests :
        /\ Done(r) /\ classifyError(trace[r].raised) = "TimeoutError"
        /\ trace[r].recovery.action = "fallback" /\ trace[r].recovery.hasData
        /\ resp[r] = trace[r].recovery.data /\ resp[r].error = NoError

\* C9: an error result is returned for a caught exception only after handleError
\* answered fail; a retry answer is not surfaced to the caller.
C9_ErrorOnlyAfterFail ==
    \A r \in Requests :
        (Done(r) /\ trace[r].raised # NoError /\ resp[r].error # NoError) =>
            trace[r].recovery.action = "fail"

\* C10: a backend call that ends in a retryable failure has been attempted
\* maxRetries + 1 times before its stage counts as failed.
C10_BackendCallsRetried ==
    \A r \in Requests :
        /\ trace[r].fpOut \in RetryableFailures => trace[r].fpCalls = ApiClientMaxRetries + 1
        /\ trace[r].deepOut \in RetryableFailures => trace[r].deepCalls = ApiClientMaxRetries + 1

(***************************************************************************)
(* ApiClient: fetchWithTimeout, fetchWithRetry and the API methods that    *)
(* call it                                                                 *)
(***************************************************************************)
\* the HTTP statuses an attempt may be answered with
\* response times of the requests, added to the level of the run
Offsets == {0, 500, 1501}

\* a history that drops the newest time when it is full
recordResponseTime_keepsOldest(h, e, responseTime) ==
    [h EXCEPT ![e] = IF Len(@) >= historySize THEN @ ELSE Append(@, responseTime)]

\* recordResponseTime: push, and shift when the array has grown past historySize
recordResponseTime(h, e, responseTime) ==
    LET times == Append(h[e], responseTime)
    IN  [h EXCEPT ![e] = IF Len(times) > historySize THEN Tail(times) ELSE times]

Statuses == {200, 400, 401, 403, 404, 408, 429, 500, 502, 503, 504}

\* how the fetch of one attempt may end without a response: the timer aborts
\* it, the transport fails (fetch rejects with a TypeError), or another error
FetchErrors == {"AbortError", "TypeError", "Error"}

\* how the fetch of one attempt ends: a response, or a rejection
RawOutcomes ==
    {[status |-> st, error |-> "none"] : st \in Statuses}
        \cup {[status |-> 0, error |-> e] : e \in FetchErrors}

\* Math.random() * 1000: the ends of [0, 1000)
Jitters == {0, 999}

Response(status) ==
    [kind |-> "response", name |-> "Response", status |-> status, retryable |-> FALSE]

\* new ApiError(message, statusCode, retryable)
ApiError(status, retryable) ==
    [kind |-> "error", name |-> "ApiError", status |-> status, retryable |-> retryable]

\* response.ok
ok(status) == status >= 200 /\ status <= 299

\* fetchWithTimeout: the response, ApiError(408, retryable) for an abort, and
\* any other error as it is
fetchWithTimeout(raw) ==
    IF raw.error = "none" THEN Response(raw.status)
    ELSE IF raw.error = "AbortError" THEN ApiError(408, TRUE)
    ELSE [kind |-> "error", name |-> raw.error, status |-> 0, retryable |-> FALSE]

\* retrying on every status
isRetryableStatus_always(status) == TRUE

isRetryableStatus(status) == status >= 500 \/ status = 408 \/ status = 429

Pow2(n) == IF n = 0 THEN 1 ELSE IF n = 1 THEN 2 ELSE IF n = 2 THEN 4 ELSE 8

Min(a, b) == IF a < b THEN a ELSE b

\* a delay that grows by baseDelay with each attempt
calculateDelay_linear(n, jitter) == Min((n + 1) * baseDelay + jitter, capDelay)

calculateDelay(n, jitter) == Min(Pow2(n) * baseDelay + jitter, capDelay)

\* a loop that never gives up
shouldRetry_unbounded(o, n) ==
    IF o.kind = "response" THEN isRetryableStatus(o.status)
    ELSE (o.name = "ApiError" /\ o.retryable) \/ o.name = "TypeError"

\* the tests of fetchWithRetry's loop body: is attempt n, ended as o, followed
\* by a delay and another attempt
shouldRetry(o, n) ==
    IF o.kind = "response" THEN isRetryableStatus(o.status) /\ n < ApiClientMaxRetries
    ELSE \/ o.name = "ApiError" /\ o.retryable /\ n < ApiClientMaxRetries
         \/ o.name = "TypeError" /\ n < ApiClientMaxRetries

\* what fetchWithRetry hands to its caller when it does not retry
giveUp(o) ==
    [kind |-> IF o.kind = "response" THEN "returned" ELSE "thrown", outcome |-> o]

\* an API method that takes any response for a success
callApi_passThrough(out) == out

\* the API methods (callGpt4oMini, callClaudeHaiku, callGeminiFlash): a response that is not
\* ok is thrown as ApiError(status, isRetryableStatus(status))
callApi(out) ==
    IF out.kind = "returned" /\ ~ok(out.outcome.status)
    THEN [kind |-> "thrown",
          outcome |-> ApiError(out.outcome.status, isRetryableStatus(out.outcome.status))]
    ELSE out

\* an API method calls fetchWithRetry
FetchStart ==
    /\ fpc = "idle"
    /\ fpc' = "attempting"
    /\ attempt' = 0
    /\ UNCHANGED <<flog, lastDelay, recorded, fout>>
    /\ UNCHANGED <<vars, handler, cleanupVars, timeoutVars, flightVars, serviceVars>>

\* a time recorded for every response, whatever its status
recordsTime_anyResponse(o) == o.kind = "response"

\* fetchWithTimeout records the response time when response.ok
recordsTime(o) == o.kind = "response" /\ ok(o.status)

\* one pass of the loop body: fetchWithTimeout ends as raw; the response took
\* responseTime, and Math.random() < 0.1 decides on saving the history
Attempt(raw, jitter, responseTime, save) ==
    /\ fpc = "attempting"
    /\ LET o == fetchWithTimeout(raw)
       IN  /\ flog' = Append(flog, o)
           /\ recorded' = IF recordsTime(o) THEN recorded + 1 ELSE recorded
           /\ history' = IF recordsTime(o)
                         THEN recordResponseTime(history, "api", responseTime)
                         ELSE history
           /\ persisted' = IF recordsTime(o) /\ save
                           THEN [has |-> TRUE, history |-> history']
                           ELSE persisted
           /\ IF shouldRetry(o, attempt)
              THEN /\ fpc' = "waiting"
                   /\ lastDelay' = calculateDelay(attempt, jitter)
                   /\ UNCHANGED fout
              ELSE /\ fpc' = "done"
                   /\ fout' = giveUp(o)
                   /\ UNCHANGED lastDelay
    /\ UNCHANGED <<attempt, level>>
    /\ UNCHANGED <<vars, handler, cleanupVars, flightVars, serviceVars>>

\* the delay is over: continue with the next attempt
Resume ==
    /\ fpc = "waiting"
    /\ fpc' = "attempting"
    /\ attempt' = attempt + 1
    /\ UNCHANGED <<flog, lastDelay, recorded, fout>>
    /\ UNCHANGED <<vars, handler, cleanupVars, timeoutVars, flightVars, serviceVars>>

FetchInit ==
    /\ Init
    /\ settings = DEFAULT_SETTINGS
    /\ cache = EmptyCache
    /\ hashCache = [u \in Urls |-> NoHash]

FetchNext ==
    \/ FetchStart
    \/ \E raw \in RawOutcomes, j \in Jitters, responseTime \in Offsets, save \in BOOLEAN :
          Attempt(raw, j, responseTime, save)
    \/ Resume

FetchSpec == FetchInit /\ [][FetchNext]_allVars

\* the statuses the retry contract names
NamedRetryable == {500, 502, 503, 408, 429}

NamedFinal == {400, 401, 403, 404}

\* attempt number i of the call (the i-th entry of flog) was the last one, and
\* the call ended with its outcome
EndedAt(i) == i = Len(flog) /\ fpc = "done" /\ fout.outcome = flog[i]

\* attempt number i was followed by a delay and another attempt, or will be
RetriedAt(i) == attempt >= i \/ (i = Len(flog) /\ fpc = "waiting")

\* a timeout, a transport failure or a retryable status
RetryableFailure(o) ==
    IF o.kind = "response" THEN o.status = 408 \/ o.status = 429 \/ o.status >= 500
    ELSE (o.name = "ApiError" /\ o.retryable) \/ o.name = "TypeError"

\* C12: a response with status 500, 502, 503, 408 or 429 is retried as long as
\* fewer than maxRetries retries have been made, a call never makes more than
\* maxRetries retries, and a response with status 400, 401, 403 or 404 ends
\* the call.
C12_RetryableStatuses ==
    /\ attempt <= ApiClientMaxRetries
    /\ Len(flog) <= ApiClientMaxRetries + 1
    /\ \A i \in 1..Len(flog) :
          flog[i].kind = "response" =>
             /\ (flog[i].status \in NamedRetryable /\ i <= ApiClientMaxRetries) => RetriedAt(i)
             /\ flog[i].status \in NamedFinal => EndedAt(i) /\ fout.kind = "returned"

\* three retries answered 503, 500, 429 and a last attempt answered 404
C12_Witness ==
    /\ fpc = "done" /\ attempt = ApiClientMaxRetries /\ Len(flog) = ApiClientMaxRetries + 1
    /\ flog[1].status = 503 /\ flog[2].status = 500 /\ flog[3].status = 429
    /\ flog[4].status = 404 /\ fout = giveUp(Response(404))

\* C13 as stated: an attempt that ends otherwise than in a timeout, a transport
\* failure or a status of {500, 502, 503, 408, 429} ends the call.
C13_OnlyNamedAreRetried ==
    \A i \in 1..Len(flog) :
        ~( \/ flog[i].kind = "error" /\ flog[i].name \in {"ApiError", "TypeError"}
           \/ flog[i].kind = "response" /\ flog[i].status \in NamedRetryable )
          => EndedAt(i)

\* C13 amended: an attempt that ends otherwise than in a timeout, a transport
\* failure or a status that is 408, 429 or at least 500 ends the call with that
\* outcome: no delay is computed and no further attempt is made.
C13_OthersPropagate ==
    \A i \in 1..Len(flog) :
        ~RetryableFailure(flog[i]) =>
            /\ EndedAt(i)
            /\ fout = giveUp(flog[i])
            /\ i = 1 => lastDelay = 0

\* a first attempt that ends with an error that is neither a timeout nor a
\* transport failure: thrown to the caller at once
C13_Witness ==
    /\ fpc = "done" /\ Len(flog) = 1 /\ attempt = 0 /\ lastDelay = 0
    /\ flog[1].kind = "error" /\ flog[1].name = "Error" /\ fout.kind = "thrown"

RecoveryErrors ==
    { [name |-> "TypeError", words |-> {"fetch"}],
      [name |-> "Error",     words |-> {"timeout"}],
      [name |-> "Error",     words |-> {"401"}],
      [name |-> "Error",     words |-> {"worker"}],
      [name |-> "TypeError", words |-> {}] }

\* the counter is removed for these answers only
resetsCounter_retryOnly(action) == action = "retry"

resetsCounter(action) == action \in {"retry", "fallback"}

\* count > this.maxRetries
exceedsLimit_never(count) == FALSE

exceedsLimit_late(count) == count > maxRetries + 1

exceedsLimit(count) == count > maxRetries

\* handleError calls made so far for an error type (errorHistory holds them all
\* while it is shorter than maxHistorySize)
CallsFor(errorType) ==
    Cardinality({i \in 1..Len(errorHistory) : errorHistory[i] = errorType})

errorKey(h) == <<classifyError(handler[h].error), "post">>

\* handleError up to its first await: the counter, the history record and the
\* test of the retry ceiling
HandleCall(h, error) ==
    LET errorType == classifyError(error)
        count     == handleErrorCount(errorCounts, errorType, "post")
    IN  /\ errorCounts' = [errorCounts EXCEPT ![<<errorType, "post">>] = count]
        /\ errorHistory' = recordError(errorHistory, errorType)
        /\ handler' = [handler EXCEPT ![h] =
              [pc    |-> IF exceedsLimit(count) THEN "returned" ELSE "awaiting",
               error |-> error,
               count |-> count,
               nth   |-> CallsFor(errorType) + 1,
               res   |-> IF exceedsLimit(count) THEN Recovery(FALSE, "fail", NoEntry)
                         ELSE NoRecovery]]
        /\ UNCHANGED <<ready, settings, cache, hashCache, accessCount>>
        /\ UNCHANGED <<pc, url, primary, result, snap, resp, trace>>
        /\ UNCHANGED <<fetchVars, cleanupVars, timeoutVars, flightVars, serviceVars>>

HandleStart(h, error) ==
    /\ handler[h].pc \in {"idle", "returned"}
    /\ Len(errorHistory) < MaxCalls
    /\ HandleCall(h, error)

HandleFinish(h) ==
    LET errorType == classifyError(handler[h].error)
        st        == strategyResult(errorType, cache, settings, "post")
    IN  /\ handler[h].pc = "awaiting"
        /\ errorCounts' = IF st.has /\ resetsCounter(st.action)
                          THEN [errorCounts EXCEPT ![<<errorType, "post">>] = 0]
                          ELSE errorCounts
        /\ handler' = [handler EXCEPT ![h].pc = "returned",
                                      ![h].res =
                          IF st.has THEN Recovery(st.action # "fail", st.action, st.data)
                          ELSE Recovery(FALSE, "retry", NoEntry)]
        /\ UNCHANGED <<ready, settings, cache, hashCache, accessCount, errorHistory>>
        /\ UNCHANGED <<pc, url, primary, result, snap, resp, trace>>
        /\ UNCHANGED <<fetchVars, cleanupVars, timeoutVars, flightVars, serviceVars>>

\* the manager of an initialized worker, with or without a stored result for
\* the post, and no call in progress
RecoveryInit ==
    /\ ready = TRUE
    /\ settings = DEFAULT_SETTINGS
    /\ cache \in [Urls -> StoredEntries]
    /\ hashCache = [u \in Urls |-> NoHash]
    /\ accessCount = [u \in Urls |-> 0]
    /\ errorCounts = [k \in ErrorTypes \X Urls |-> 0]
    /\ errorHistory = <<>>
    /\ pc = [r \in Requests |-> "idle"]
    /\ url = [r \in Requests |-> "post"]
    /\ primary = [r \in Requests |-> NoPrimary]
    /\ result = [r \in Requests |-> NoResponse]
    /\ snap = [r \in Requests |-> EmptyCache]
    /\ resp = [r \in Requests |-> NoResponse]
    /\ trace = [r \in Requests |-> NoTrace]
    /\ FetchQuiet
    /\ HandlersQuiet
    /\ CleanupQuiet
    /\ TimeoutQuiet
    /\ FlightQuiet
    /\ ServiceQuiet

RecoveryNext ==
    \/ \E h \in Handlers, error \in RecoveryErrors : HandleStart(h, error)
    \/ \E h \in Handlers : HandleFinish(h)

RecoverySpec == RecoveryInit /\ [][RecoveryNext]_allVars

\* a call that has returned, and what it was called with
Handled(h) == handler[h].pc = "returned"

handledType(h) == classifyError(handler[h].error)

\* the error types with a registered strategy
WithStrategy == {"NetworkError", "TimeoutError", "IndexedDBError", "ApiKeyError",
                 "OutOfMemoryError", "ServiceWorkerError"}

\* the error types whose handling never removes the counter: no strategy, or a
\* strategy that answers restart, or one that can only answer fail
CounterKept == {"ServiceWorkerError", "IndexedDBError", "RateLimitError", "UnknownError"}

C16_CounterResetOnRecovery ==
    [][\A h \in Handlers :
          /\ handler[h].pc = "awaiting" /\ handler'[h].pc = "returned"
          /\ handledType(h) \in WithStrategy
          /\ handler'[h].res.action \in {"retry", "fallback"}
          => errorCounts'[errorKey(h)] = 0]_allVars

\* an authorization error was answered with fallback although there was no
\* cached data, its counter had been raised to two by an overlapping call, and
\* the counter is zero
C16_Witness ==
    \E h \in Handlers :
        /\ Handled(h) /\ handledType(h) = "ApiKeyError"
        /\ handler[h].res = Recovery(TRUE, "fallback", NoEntry)
        /\ handler[h].count = 2
        /\ errorCounts[errorKey(h)] = 0

Max(a, b) == IF a > b THEN a ELSE b

\* count * 1000 + Math.max(0, 86400000 - age), age = now - lastTime
score_frequencyOnly(count, lastTime) == count * 1000

score(count, lastTime) == count * 1000 + Max(0, Day - (now - lastTime))

\* Math.max(10, Math.ceil(totalCount * 0.8)); the double product rounds up to
\* the same integer as the exact one for every count up to 200000
keepCount_noMinimum(totalCount) == (8 * totalCount + 9) \div 10

keepCount(totalCount) == Max(MinKeep, (8 * totalCount + 9) \div 10)

\* the entries of the index, in the order the Map yields them
entriesOf(ac) == {u \in CachedUrls : ac[u] > 0}

\* entries.sort((a, b) => a.score - b.score) is stable: equal scores keep the
\* order of insertion
sortsBefore(ac, la, u, v) ==
    \/ score(ac[u], la[u]) < score(ac[v], la[v])
    \/ score(ac[u], la[u]) = score(ac[v], la[v]) /\ u < v

sortedEntries(ac, la) ==
    [i \in 1..Cardinality(entriesOf(ac)) |->
        CHOOSE u \in entriesOf(ac) :
            Cardinality({v \in entriesOf(ac) : sortsBefore(ac, la, v, u)}) = i - 1]

\* deleteCachedResult: window.kasFreeDB.deleteAnalysisResult inside try/catch; in
\* the service worker the reference to window throws and the catch logs it. The
\* object it names is the IndexedDB wrapper, not the store getCachedResult reads.
deleteCachedResult(c, u) ==
    IF windowKasFreeDB THEN [c EXCEPT ![u] = NoEntry] ELSE c

\* usage profiles of an entry: read an hour ago, read three times but last 25
\* hours ago, read once just inside the 24 hours, read once 25 hours ago, read
\* twice just inside the 24 hours
Profiles ==
    << [count |-> 1, last |-> now - 3600000],
       [count |-> 3, last |-> now - 90000000],
       [count |-> 1, last |-> now - Day + 500],
       [count |-> 1, last |-> now - 90000000],
       [count |-> 2, last |-> now - Day + 500] >>

\* the profile of the u-th entry: every third entry has profile b, the others
\* profile a (a = b gives every entry the same score)
profileOf(u, a, b) == IF u % 3 = 0 THEN Profiles[b] ELSE Profiles[a]

StoredEntry == CHOOSE e \in StoredEntries : e.present

SmartCleanup ==
    LET totalCount  == Cardinality(entriesOf(accessCount))
        deleteCount == totalCount - keepCount(totalCount)
        victims     == IF deleteCount > 0
                       THEN SubSeq(sortedEntries(accessCount, lastAccess), 1, deleteCount)
                       ELSE <<>>
    IN  /\ sweep.pc = "idle"
        /\ sweep' = [sweep EXCEPT
              !.pc       = IF deleteCount > 0 THEN "deleting" ELSE "done",
              !.toDelete = victims,
              !.before   = [count |-> accessCount, last |-> lastAccess]]
        /\ UNCHANGED <<ready, settings, cache, hashCache, accessCount, errorCounts, errorHistory>>
        /\ UNCHANGED <<pc, url, primary, result, snap, resp, trace>>
        /\ UNCHANGED <<fetchVars, handler, lastAccess, timeoutVars, flightVars, serviceVars>>

\* one pass of the loop over toDelete
DeleteEntry ==
    LET u == sweep.toDelete[sweep.next]
    IN  /\ sweep.pc = "deleting"
        /\ cache' = deleteCachedResult(cache, u)
        /\ accessCount' = [accessCount EXCEPT ![u] = 0]
        /\ lastAccess' = [lastAccess EXCEPT ![u] = 0]
        /\ sweep' = [sweep EXCEPT
              !.next     = @ + 1,
              !.pc       = IF sweep.next = Len(sweep.toDelete) THEN "done" ELSE "deleting",
              !.returned = IF sweep.next = Len(sweep.toDelete) THEN Len(sweep.toDelete) ELSE 0]
        /\ UNCHANGED <<ready, settings, hashCache, errorCounts, errorHistory>>
        /\ UNCHANGED <<pc, url, primary, result, snap, resp, trace>>
        /\ UNCHANGED <<fetchVars, handler, timeoutVars, flightVars, serviceVars>>

\* AdvancedCacheManager.getAnalysisResult(u), before the sweep or after it
Lookup(u) ==
    LET cached == getAnalysisResult(cache, settings, u)
    IN  /\ sweep.pc \in {"idle", "done"}
        /\ sweep.gets < MaxGets
        /\ accessCount' = countAccess(accessCount, cached.present, u)
        /\ lastAccess' = IF cached.present THEN [lastAccess EXCEPT ![u] = now] ELSE lastAccess
        /\ sweep' = [sweep EXCEPT
              !.gets = @ + 1,
              !.got  = IF sweep.pc = "done"
                       THEN [@ EXCEPT ![u] = IF cached.present THEN "hit" ELSE "miss"]
                       ELSE @]
        /\ UNCHANGED <<ready, settings, cache, hashCache, errorCounts, errorHistory>>
        /\ UNCHANGED <<pc, url, primary, result, snap, resp, trace>>
        /\ UNCHANGED <<fetchVars, handler, timeoutVars, flightVars, serviceVars>>

\* the keys results are stored for: the first entry, one with the second
\* profile, and the last, which the cache holds only when it is full
PutKeys == {1, 3, MaxEntries}

\* AdvancedCacheManager.setAnalysisResult(u, result), before the sweep or after
\* it: CacheManager.setAnalysisResult writes the entry unless caching is off or
\* the write fails (the failure is caught and logged), then the usage index gets
\* an entry for u if it has none
Put(u, stored) ==
    /\ sweep.pc \in {"idle", "done"}
    /\ sweep.gets < MaxGets
    /\ cache' = IF settings.cacheEnabled /\ stored
                THEN [cache EXCEPT ![u] = StoredEntry]
                ELSE cache
    /\ accessCount' = initAccess(accessCount, u)
    /\ lastAccess' = IF accessCount[u] = 0 THEN [lastAccess EXCEPT ![u] = now] ELSE lastAccess
    /\ sweep' = [sweep EXCEPT
          !.gets = @ + 1,
          !.got  = IF sweep.pc = "done" THEN [@ EXCEPT ![u] = "put"] ELSE @,
          !.puts = @ + 1,
          !.last = [key |-> u, stored |-> settings.cacheEnabled /\ stored]]
    /\ UNCHANGED <<ready, settings, hashCache, errorCounts, errorHistory>>
    /\ UNCHANGED <<pc, url, primary, result, snap, resp, trace>>
    /\ UNCHANGED <<fetchVars, handler, timeoutVars, flightVars, serviceVars>>

\* an initialized worker whose cache holds n entries, some of them expired,
\* each with its place in the usage index
SweepInit ==
    \E n \in 0..MaxEntries, a \in 1..Len(Profiles), b \in 1..Len(Profiles),
       staleEven \in BOOLEAN :
        /\ ready = TRUE
        /\ settings = DEFAULT_SETTINGS
        /\ cache = [u \in CachedUrls |->
                      IF u > n THEN NoEntry
                      ELSE [StoredEntry EXCEPT !.fresh = ~(staleEven /\ u % 2 = 0)]]
        /\ accessCount = [u \in CachedUrls |->
                      IF u > n THEN 0 ELSE profileOf(u, a, b).count]
        /\ lastAccess = [u \in CachedUrls |->
                      IF u > n THEN 0 ELSE profileOf(u, a, b).last]
        /\ sweep = [NoSweep EXCEPT !.got = [u \in CachedUrls |-> "none"]]
        /\ hashCache = [u \in Urls |-> NoHash]
        /\ errorCounts = [k \in ErrorTypes \X Urls |-> 0]
        /\ errorHistory = <<>>
        /\ pc = [r \in Requests |-> "idle"]
        /\ url = [r \in Requests |-> "post"]
        /\ primary = [r \in Requests |-> NoPrimary]
        /\ result = [r \in Requests |-> NoResponse]
        /\ snap = [r \in Requests |-> EmptyCache]
        /\ resp = [r \in Requests |-> NoResponse]
        /\ trace = [r \in Requests |-> NoTrace]
        /\ FetchQuiet
        /\ HandlersQuiet
        /\ TimeoutQuiet
        /\ FlightQuiet
        /\ ServiceQuiet

SweepNext ==
    \/ SmartCleanup
    \/ DeleteEntry
    \/ \E u \in CachedUrls : Lookup(u)

SweepSpec == SweepInit /\ [][SweepNext]_allVars

\* the same cache with results being stored as well as read, for a few keys
StoreNext ==
    \/ SmartCleanup
    \/ DeleteEntry
    \/ \E u \in PutKeys : Lookup(u)
    \/ \E u \in PutKeys, stored \in BOOLEAN : Put(u, stored)

StoreSpec == SweepInit /\ [][StoreNext]_allVars

\* the sweep has returned and nothing was looked up since
Swept == sweep.pc = "done" /\ \A u \in CachedUrls : sweep.got[u] = "none"

IndexedBefore == {u \in CachedUrls : sweep.before.count[u] > 0}

Indexed == entriesOf(accessCount)

\* the entries the sweep has removed from the index so far
Evicted == {sweep.toDelete[i] : i \in 1..(sweep.next - 1)}

\* the least k with k >= 0.8 n
CeilFourFifths(n) == CHOOSE k \in 0..n : 5 * k >= 4 * n /\ 5 * (k - 1) < 4 * n

C19_EvictedAreGone ==
    sweep.pc = "done" =>
        \A u \in Evicted :
            /\ sweep.got[u] = "none" => accessCount[u] = 0 /\ lastAccess[u] = 0
            /\ ~cache[u].present
            /\ sweep.got[u] # "hit"

\* the score as the claim gives it, from the index as the sweep found it
ScoreBefore(u) ==
    LET age == now - sweep.before.last[u]
    IN  sweep.before.count[u] * 1000 + (IF Day - age > 0 THEN Day - age ELSE 0)

\* C20: after a sweep no entry left in the index has a lower score than an
\* evicted one, the score being accessCount * 1000 + max(0, 24 h - age).
C20_LowestScoresEvicted ==
    Swept =>
        /\ Evicted = IndexedBefore \ Indexed
        /\ \A e \in Evicted, r \in Indexed : ScoreBefore(r) >= ScoreBefore(e)

\* an entry read three times was evicted while an entry read once was kept,
\* and an evicted entry has the same score as a kept one
C20_Witness ==
    /\ Swept
    /\ \E e \in Evicted, r \in Indexed :
          sweep.before.count[e] = 3 /\ sweep.before.count[r] = 1
    /\ \E e \in Evicted, r \in Indexed : ScoreBefore(e) = ScoreBefore(r)

\* the step is a call of setAnalysisResult for u
PutOf(u) == sweep'.puts = sweep.puts + 1 /\ sweep'.last.key = u

Callers == {1, 2}

PairInit ==
    /\ ready = TRUE
    /\ settings = DEFAULT_SETTINGS
    /\ cache = EmptyCache
    /\ hashCache = [u \in Urls |-> NoHash]
    /\ accessCount = [u \in Urls |-> 0]
    /\ errorCounts = [k \in ErrorTypes \X Urls |-> 0]
    /\ errorHistory = <<>>
    /\ pc = [r \in Callers |-> "idle"]
    /\ url = [r \in Callers |-> "post"]
    /\ primary = [r \in Callers |-> NoPrimary]
    /\ result = [r \in Callers |-> NoResponse]
    /\ snap = [r \in Callers |-> EmptyCache]
    /\ resp = [r \in Callers |-> NoResponse]
    /\ trace = [r \in Callers |-> NoTrace]
    /\ FetchQuiet
    /\ HandlersQuiet
    /\ CleanupQuiet
    /\ TimeoutQuiet
    /\ FlightQuiet
    /\ ServiceQuiet

PairNext ==
    \/ \E r \in Callers : Receive(r, "post")
    \/ \E r \in Callers, found \in BOOLEAN : FetchPost(r, found)
    \/ \E r \in Callers, e \in InjectedErrors : CatchError(r, e)
    \/ \E r \in Callers : HashCached(r)
    \/ \E r \in Callers : HashMiss(r)
    \/ \E r \in Callers : HashPrepFail(r)
    \/ \E r \in Callers, s \in Scores : HashOk(r, s)
    \/ \E r \in Callers, f \in FetchFailures : HashFail(r, f)
    \/ \E r \in Callers : DeepPrepFail(r)
    \/ \E r \in Callers, f \in FetchFailures : DeepFail(r, f)
    \/ \E r \in Callers, s \in Scores : DeepOk(r, s)
    \/ \E r \in Callers : StoreRead(r)
    \/ \E r \in Callers, stored \in BOOLEAN : StoreWrite(r, stored)

PairSpec == PairInit /\ [][PairNext]_allVars

\* both calls are in progress and both found no result stored for the post
BothInProgress ==
    \A r \in Callers : pc[r] \notin {"idle", "done"} /\ ~trace[r].hit

\* the fingerprint stage of the call came to a result or to a backend failure
FingerprintReached(r) == trace[r].fpOut \in {"ok", "cached"} \cup FetchFailures

Levels == {0, 2600, 14000, 29000}

RECURSIVE Sum(_)
Sum(times) == IF times = <<>> THEN 0 ELSE Head(times) + Sum(Tail(times))

RECURSIVE SumSq(_)
SumSq(times) == IF times = <<>> THEN 0 ELSE Head(times) * Head(times) + SumSq(Tail(times))

Least(times) == CHOOSE t \in {times[i] : i \in 1..Len(times)} :
                    \A i \in 1..Len(times) : t <= times[i]

\* the times counted from the least of them: the deviations from the mean, and
\* so the variance, are the same
Shifted(times) == [i \in 1..Len(times) |-> times[i] - Least(times)]

\* n * n * variance, with variance = sum of (t - mean)^2 / n, is n * (sum of
\* squares) - (sum)^2
VarianceTimesNN(times) ==
    Len(times) * SumSq(Shifted(times)) - Sum(Shifted(times)) * Sum(Shifted(times))

\* the square root rounded down, by bisection
RECURSIVE Bisect(_, _, _)
Bisect(x, lo, hi) ==
    IF hi - lo <= 1 THEN lo
    ELSE LET mid == (lo + hi) \div 2
         IN  IF mid * mid <= x THEN Bisect(x, mid, hi) ELSE Bisect(x, lo, mid)

\* 4 * n * stdDev rounded down, stdDev = Math.sqrt(variance)
Floor4NStdDev(times) == Bisect(16 * VarianceTimesNN(times), 0, 46341)

\* Math.round(mean + 2 * stdDev) rounded down to whole milliseconds only
roundedTimeout_floor(times) ==
    (2 * Sum(times) + Floor4NStdDev(times)) \div (2 * Len(times))

\* Math.round(mean + 2 * stdDev) = floor(mean + 2 * stdDev + 1/2)
\*                               = floor((2 * sum + 4 * n * stdDev + n) / (2 * n))
roundedTimeout(times) ==
    (2 * Sum(times) + Floor4NStdDev(times) + Len(times)) \div (2 * Len(times))

\* the statistics without the two limits
calculateTimeout_unbounded(times) ==
    IF Len(times) < MinSamples THEN defaultTimeout ELSE roundedTimeout(times)

\* the statistics from the first recorded time on
calculateTimeout_fromFirst(times) ==
    IF Len(times) < 1 THEN defaultTimeout
    ELSE Max(minTimeout, Min(roundedTimeout(times), maxTimeout))

\* calculateTimeout(endpoint) for the times of the endpoint; the order of
\* Math.max, Math.min and Math.round does not matter, the limits being whole
calculateTimeout(times) ==
    IF Len(times) < MinSamples THEN defaultTimeout
    ELSE Max(minTimeout, Min(roundedTimeout(times), maxTimeout))

getTimeout(h, e) == calculateTimeout(h[e])

SamplesHeld == Len(history["api"]) + Len(history["cdn"])

Record(e, offset) ==
    /\ SamplesHeld < MaxSamples
    /\ history' = recordResponseTime(history, e, level + offset)
    /\ UNCHANGED <<persisted, level>>
    /\ UNCHANGED <<vars, fetchVars, handler, cleanupVars, flightVars, serviceVars>>

\* clearHistory(endpoint)
ClearHistory(e) ==
    /\ history' = [history EXCEPT ![e] = <<>>]
    /\ UNCHANGED <<persisted, level>>
    /\ UNCHANGED <<vars, fetchVars, handler, cleanupVars, flightVars, serviceVars>>

\* clearHistory()
ClearAll ==
    /\ history' = NoHistory
    /\ UNCHANGED <<persisted, level>>
    /\ UNCHANGED <<vars, fetchVars, handler, cleanupVars, flightVars, serviceVars>>

\* saveHistory: the map as it is goes to chrome.storage.local; a run is
\* followed up to its first save
SaveHistory ==
    /\ ~persisted.has
    /\ persisted' = [has |-> TRUE, history |-> history]
    /\ UNCHANGED <<history, level>>
    /\ UNCHANGED <<vars, fetchVars, handler, cleanupVars, flightVars, serviceVars>>

\* loadHistory: the stored arrays replace the map when something is stored
LoadHistory ==
    /\ history' = IF persisted.has THEN persisted.history ELSE history
    /\ UNCHANGED <<persisted, level>>
    /\ UNCHANGED <<vars, fetchVars, handler, cleanupVars, flightVars, serviceVars>>

\* what an earlier run of the worker may have saved
EarlierRuns(l) ==
    { NothingPersisted,
      [has |-> TRUE,
       history |-> [NoHistory EXCEPT !["api"] = <<l, l + 1501, l, l + 500, l, l>>]] }

\* the worker is initialised and no message is being handled
WorkerQuiet ==
    /\ ready = TRUE
    /\ settings = DEFAULT_SETTINGS
    /\ cache = EmptyCache
    /\ hashCache = [u \in Urls |-> NoHash]
    /\ accessCount = [u \in Urls |-> 0]
    /\ errorCounts = [k \in ErrorTypes \X Urls |-> 0]
    /\ errorHistory = <<>>
    /\ pc = [r \in Requests |-> "idle"]
    /\ url = [r \in Requests |-> "post"]
    /\ primary = [r \in Requests |-> NoPrimary]
    /\ result = [r \in Requests |-> NoResponse]
    /\ snap = [r \in Requests |-> EmptyCache]
    /\ resp = [r \in Requests |-> NoResponse]
    /\ trace = [r \in Requests |-> NoTrace]

TimeoutInit ==
    /\ WorkerQuiet
    /\ FetchQuiet
    /\ HandlersQuiet
    /\ CleanupQuiet
    /\ history = NoHistory
    /\ level \in Levels
    /\ persisted \in EarlierRuns(level)
    /\ FlightQuiet
    /\ ServiceQuiet

TimeoutNext ==
    \/ \E e \in Endpoints, offset \in Offsets : Record(e, offset)
    \/ \E e \in Endpoints : ClearHistory(e)
    \/ ClearAll
    \/ LoadHistory

TimeoutSpec == TimeoutInit /\ [][TimeoutNext]_allVars

\* C22: after any sequence of record, restore and clear, the timeout of every
\* endpoint lies between minTimeout and maxTimeout.
C22_TimeoutWithinLimits ==
    \A e \in Endpoints :
        /\ getTimeout(history, e) >= minTimeout
        /\ getTimeout(history, e) <= maxTimeout

\* statistics above the upper limit, held to it, after a restore
C22_Witness ==
    /\ persisted.has
    /\ history # persisted.history
    /\ Len(history["api"]) >= MinSamples
    /\ roundedTimeout(history["api"]) > maxTimeout
    /\ getTimeout(history, "api") = maxTimeout

\* C23: with fewer than five recorded times the timeout of an endpoint is the
\* default, whatever the times are.
C23_DefaultBelowFiveSamples ==
    \A e \in Endpoints :
        Len(history[e]) < MinSamples => getTimeout(history, e) = defaultTimeout

\* four times whose statistics would lie above the upper limit
C23_Witness ==
    /\ Len(history["api"]) = MinSamples - 1
    /\ roundedTimeout(history["api"]) > maxTimeout
    /\ getTimeout(history, "api") = defaultTimeout

Greatest(times) == CHOOSE t \in {times[i] : i \in 1..Len(times)} :
                       \A i \in 1..Len(times) : t >= times[i]

\* mean + 2 * stdDev >= twice / 2, with the population standard deviation:
\* for g = n * twice - 2 * sum this is 4 * n * stdDev >= g, and 2 * stdDev
\* never exceeds the distance from the least time to the greatest
MeanPlusTwoSigmaAtLeast(times, twice) ==
    LET n == Len(times)
        g == n * twice - 2 * Sum(times)
    IN  \/ g <= 0
        \/ /\ g <= 2 * n * (Greatest(times) - Least(times))
           /\ g * g <= 16 * VarianceTimesNN(times)

\* C24: with five times or more the timeout of an endpoint is mean + 2 standard
\* deviations (population), kept within minTimeout and maxTimeout and rounded
\* to the nearest whole millisecond.
C24_ClampedMeanPlusTwoSigma ==
    \A e \in Endpoints :
        Len(history[e]) >= MinSamples =>
            LET r == getTimeout(history, e)
            IN  /\ r \in minTimeout..maxTimeout
                /\ r > minTimeout => MeanPlusTwoSigmaAtLeast(history[e], 2 * r - 1)
                /\ r < maxTimeout => ~MeanPlusTwoSigmaAtLeast(history[e], 2 * r + 1)

\* a timeout strictly between the limits, with times that differ, rounded up
C24_Witness ==
    \E e \in Endpoints :
        /\ Len(history[e]) >= MinSamples
        /\ VarianceTimesNN(history[e]) > 0
        /\ getTimeout(history, e) > minTimeout
        /\ getTimeout(history, e) < maxTimeout
        /\ getTimeout(history, e) = roundedTimeout_floor(history[e]) + 1


\* A long run of one endpoint: the n-th response takes n milliseconds, so that
\* the order of the times in the array shows which ones were dropped.
RecordNext ==
    /\ level < MaxRecords
    /\ history' = recordResponseTime(history, "api", level)
    /\ level' = level + 1
    /\ UNCHANGED persisted
    /\ UNCHANGED <<vars, fetchVars, handler, cleanupVars, flightVars, serviceVars>>

HistoryInit ==
    /\ TimeoutInit
    /\ level = 0
    /\ persisted = NothingPersisted

HistoryNext == RecordNext \/ SaveHistory \/ LoadHistory

HistorySpec == HistoryInit /\ [][HistoryNext]_allVars

Recorded == level' = level + 1

\* C25: after any sequence of record and restore no endpoint holds more than
\* historySize (100) times, and a record made at capacity drops the oldest
\* time and appends the new one.
C25_HistoryBounded ==
    [][/\ \A e \in Endpoints : Len(history'[e]) <= historySize
       /\ Recorded /\ Len(history["api"]) = historySize =>
              history'["api"] = Append(Tail(history["api"]), level)]_allVars

\* a full history was saved, restored over a later one, and recorded into
C25_Witness ==
    /\ persisted.has
    /\ Len(persisted.history["api"]) = historySize
    /\ Len(history["api"]) = historySize
    /\ Head(history["api"]) = Head(persisted.history["api"]) + 1
    /\ history["api"][historySize] > persisted.history["api"][historySize] + 1


\* the attempt that a step of fetchWithRetry has just finished
AttemptEnded == Len(flog') = Len(flog) + 1

\* C26: an attempt that ends in a timeout, a transport failure or a response
\* with an error status leaves the history of every endpoint as it was; a time
\* is appended only for a response without an error status.
C26_HistoryOnlyOnSuccess ==
    [][AttemptEnded =>
          LET o == flog'[Len(flog')]
          IN  /\ o.kind = "error" \/ o.status >= 400 => history' = history
              /\ history' # history =>
                    /\ o.kind = "response" /\ o.status < 400
                    /\ Len(history'["api"]) = Len(history["api"]) + 1
                    /\ history'["cdn"] = history["cdn"]]_allVars

\* a timeout, then a 503, then a response that is recorded
C26_Witness ==
    /\ Len(flog) = 3
    /\ flog[1] = ApiError(408, TRUE)
    /\ flog[2] = Response(503)
    /\ flog[3] = Response(200)
    /\ Len(history["api"]) = 1
    /\ persisted.has


(***************************************************************************)
(* ApiClient.calculateDelay on its own                                     *)
(***************************************************************************)
\* Math.random() * 1000 in steps of 37 ms, from 0 to 999
JitterSamples == {37 * k : k \in 0..27}

\* the loop variable of fetchWithRetry runs from 0 to maxRetries
AttemptIndexes == 0..ApiClientMaxRetries

ComputeDelay(jitter) ==
    /\ fpc = "idle"
    /\ fpc' = "computed"
    /\ lastDelay' = calculateDelay(attempt, jitter)
    /\ UNCHANGED <<attempt, flog, recorded, fout>>
    /\ UNCHANGED <<vars, handler, cleanupVars, timeoutVars, flightVars, serviceVars>>

DelayInit ==
    /\ WorkerQuiet
    /\ fpc = "idle"
    /\ attempt \in AttemptIndexes
    /\ flog = <<>>
    /\ lastDelay = 0
    /\ recorded = 0
    /\ fout = [kind |-> "none", outcome |-> NoOutcome]
    /\ HandlersQuiet
    /\ CleanupQuiet
    /\ TimeoutQuiet
    /\ FlightQuiet
    /\ ServiceQuiet

DelayNext == \E jitter \in JitterSamples : ComputeDelay(jitter)

DelaySpec == DelayInit /\ [][DelayNext]_allVars

\* C27: the delay computed for attempt index i is at least 2^i * baseDelay,
\* less than 2^i * baseDelay + 1000, and at most 10000 ms; with baseDelay 1000
\* that is [1000, 2000) for attempt 0 and [8000, 9000) for attempt 3.
C27_DelayWithinWindow ==
    fpc = "computed" =>
        /\ lastDelay >= 2^attempt * baseDelay
        /\ lastDelay < 2^attempt * baseDelay + 1000
        /\ lastDelay <= 10000
        /\ attempt = 0 => lastDelay >= 1000 /\ lastDelay < 2000
        /\ attempt = 3 => lastDelay >= 8000 /\ lastDelay < 9000

\* attempt 3 with the largest jitter
C27_Witness ==
    /\ fpc = "computed"
    /\ attempt = 3
    /\ lastDelay = 8999


(***************************************************************************)
(* ApiClient.fetchWithTimeout: several requests in flight                  *)
(***************************************************************************)
\* one AbortController for all the requests in flight
controllerAbort_shared(fl, c) ==
    [d \in Flights |-> IF fl[d].pc = "fetching" THEN [fl[d] EXCEPT !.aborted = TRUE] ELSE fl[d]]

\* controller.abort(): the controller was made by this call of fetchWithTimeout
controllerAbort(fl, c) == [fl EXCEPT ![c].aborted = TRUE]

\* new AbortController, setTimeout, fetch(url, {signal})
Send(c) ==
    /\ flights[c].pc = "idle"
    /\ flights' = [flights EXCEPT ![c].pc = "fetching", ![c].timer = "armed"]
    /\ UNCHANGED <<postRows, listRun>>
    /\ UNCHANGED <<vars, fetchVars, handler, cleanupVars, timeoutVars, serviceVars>>

\* the timer of call c runs its callback
TimerFires(c) ==
    /\ flights[c].timer = "armed"
    /\ flights' = [controllerAbort(flights, c) EXCEPT ![c].timer = "fired"]
    /\ UNCHANGED <<postRows, listRun>>
    /\ UNCHANGED <<vars, fetchVars, handler, cleanupVars, timeoutVars, serviceVars>>

\* fetch resolves: clearTimeout, the response is returned
FetchResolves(c, status) ==
    /\ flights[c].pc = "fetching"
    /\ ~flights[c].aborted
    /\ flights' = [flights EXCEPT ![c].pc = "returned", ![c].timer = "cleared",
                                  ![c].out = fetchWithTimeout([status |-> status, error |-> "none"])]
    /\ UNCHANGED <<postRows, listRun>>
    /\ UNCHANGED <<vars, fetchVars, handler, cleanupVars, timeoutVars, serviceVars>>

\* fetch rejects, with AbortError when its signal is aborted: the catch branch
FetchRejects(c, error) ==
    /\ flights[c].pc = "fetching"
    /\ flights[c].aborted <=> error = "AbortError"
    /\ flights' = [flights EXCEPT ![c].pc = "thrown",
                                  ![c].timer = IF @ = "armed" THEN "cleared" ELSE @,
                                  ![c].out = fetchWithTimeout([status |-> 0, error |-> error])]
    /\ UNCHANGED <<postRows, listRun>>
    /\ UNCHANGED <<vars, fetchVars, handler, cleanupVars, timeoutVars, serviceVars>>

FlightInit ==
    /\ WorkerQuiet
    /\ FetchQuiet
    /\ HandlersQuiet
    /\ CleanupQuiet
    /\ TimeoutQuiet
    /\ FlightQuiet
    /\ ServiceQuiet

FlightNext ==
    \E c \in Flights :
        \/ Send(c)
        \/ TimerFires(c)
        \/ \E status \in Statuses : FetchResolves(c, status)
        \/ \E error \in FetchErrors : FetchRejects(c, error)

FlightSpec == FlightInit /\ [][FlightNext]_allVars

\* C28: when the timer of one request in flight fires, that request alone is
\* aborted, and it ends in the retryable ApiError 408; no other request is
\* aborted, or made to fail, by it.
C28_OnlyOwnRequestAborted ==
    [][\A c \in Flights :
          /\ flights[c].timer = "armed" /\ flights'[c].timer = "fired" =>
                /\ flights'[c].aborted
                /\ \A d \in Flights \ {c} : flights'[d] = flights[d]
          /\ flights'[c].aborted => flights'[c].timer = "fired"
          /\ flights'[c].pc = "thrown" =>
                (flights'[c].timer = "fired" <=> flights'[c].out = ApiError(408, TRUE))]_allVars

\* one request timed out and threw, another returned its response, a third is
\* still in flight with its timer armed
C28_Witness ==
    /\ flights[1].pc = "thrown" /\ flights[1].out = ApiError(408, TRUE)
    /\ flights[2].pc = "returned" /\ flights[2].out = Response(200)
    /\ flights[3].pc = "fetching" /\ flights[3].timer = "armed" /\ ~flights[3].aborted


(***************************************************************************)
(* Content script: processPostList                                         *)
(***************************************************************************)
\* rows.slice(i, i + BATCH_SIZE), rows counted from 1
batchAt(i, n) == {r \in Rows : r > i /\ r <= i + BATCH_SIZE /\ r <= n}

\* a loop that goes on when the first row of the batch is through
batchDone_first(rows, batch) == \E r \in batch : rows[r] = "done"

\* Promise.all(batch.map(...)) is fulfilled: every processPostRow has returned
batchDone(rows, batch) == \A r \in batch : rows[r] = "done"

\* batch.map(row => processPostRow(row)): every row of the batch is started
dispatch(rows, batch) == [r \in Rows |-> IF r \in batch THEN "running" ELSE rows[r]]

\* processPostList(false) is called: the first batch, if there is a row
StartList ==
    /\ listRun.pc = "idle"
    /\ IF listRun.n = 0
       THEN /\ listRun' = [listRun EXCEPT !.pc = "finished"]
            /\ UNCHANGED postRows
       ELSE /\ listRun' = [listRun EXCEPT !.pc = "awaiting"]
            /\ postRows' = dispatch(postRows, batchAt(0, listRun.n))
    /\ UNCHANGED flights
    /\ UNCHANGED <<vars, fetchVars, handler, cleanupVars, timeoutVars, serviceVars>>

\* processPostRow returns
RowDone(r) ==
    /\ postRows[r] = "running"
    /\ postRows' = [postRows EXCEPT ![r] = "done"]
    /\ UNCHANGED <<flights, listRun>>
    /\ UNCHANGED <<vars, fetchVars, handler, cleanupVars, timeoutVars, serviceVars>>

\* processPostRow throws outside its try block
RowFails(r) ==
    /\ postRows[r] = "running"
    /\ postRows' = [postRows EXCEPT ![r] = "failed"]
    /\ UNCHANGED <<flights, listRun>>
    /\ UNCHANGED <<vars, fetchVars, handler, cleanupVars, timeoutVars, serviceVars>>

\* the await of Promise.all is over: i += BATCH_SIZE, the loop test, and the
\* next batch
NextBatch ==
    /\ listRun.pc = "awaiting"
    /\ batchDone(postRows, batchAt(listRun.i, listRun.n))
    /\ IF listRun.i + BATCH_SIZE < listRun.n
       THEN /\ listRun' = [listRun EXCEPT !.i = @ + BATCH_SIZE]
            /\ postRows' = dispatch(postRows, batchAt(listRun.i + BATCH_SIZE, listRun.n))
       ELSE /\ listRun' = [listRun EXCEPT !.i = @ + BATCH_SIZE, !.pc = "finished"]
            /\ UNCHANGED postRows
    /\ UNCHANGED flights
    /\ UNCHANGED <<vars, fetchVars, handler, cleanupVars, timeoutVars, serviceVars>>

\* Promise.all is rejected by the first row that fails: processPostList throws
ListThrows ==
    /\ listRun.pc = "awaiting"
    /\ \E r \in batchAt(listRun.i, listRun.n) : postRows[r] = "failed"
    /\ listRun' = [listRun EXCEPT !.pc = "thrown"]
    /\ UNCHANGED <<flights, postRows>>
    /\ UNCHANGED <<vars, fetchVars, handler, cleanupVars, timeoutVars, serviceVars>>

ListInit ==
    /\ WorkerQuiet
    /\ FetchQuiet
    /\ HandlersQuiet
    /\ CleanupQuiet
    /\ TimeoutQuiet
    /\ flights = [c \in Flights |-> NoFlight]
    /\ ServiceQuiet
    /\ \E n \in 0..MaxRows :
          /\ listRun = [NoRun EXCEPT !.n = n]
          /\ postRows = [r \in Rows |-> IF r <= n THEN "pending" ELSE "none"]

ListNext ==
    \/ StartList
    \/ \E r \in Rows : RowDone(r)
    \/ \E r \in Rows : RowFails(r)
    \/ NextBatch
    \/ ListThrows

ListSpec == ListInit /\ [][ListNext]_allVars

Dispatched(r) == postRows[r] = "pending" /\ postRows'[r] = "running"

\* the number of the batch of row r: rows 1..5 are batch 0, rows 6..10 batch 1
BatchNumber(r) == (r - 1) \div 5

\* C30: within one run of processPostList the rows of a batch are dispatched
\* together, and no row of the next batch is dispatched before every row of
\* the batches before it has completed.
C30_BatchesInTurn ==
    [][\A r \in Rows : Dispatched(r) =>
          \A q \in Rows :
              /\ BatchNumber(q) = BatchNumber(r) /\ q <= listRun.n => Dispatched(q)
              /\ BatchNumber(q) < BatchNumber(r) => postRows[q] = "done"]_allVars

\* the second batch is running, the first is through, the third has not begun
C30_Witness ==
    /\ listRun = [pc |-> "awaiting", i |-> 5, n |-> 11]
    /\ \A r \in 1..5 : postRows[r] = "done"
    /\ \A r \in 6..10 : postRows[r] = "running"
    /\ postRows[11] = "pending"


(***************************************************************************)
(* AIVerificationHandler.handleVerification                                *)
(***************************************************************************)
\* analysis.final_score in hundredths; 0 also stands for an answer without it
AiScores == {5 * k : k \in 0..20}

Analyses == [is_harmful : BOOLEAN, final_score : AiScores]

\* handleHarmfulImage: status 'danger', riskScore: analysis.final_score || 0.9
handleHarmfulImage(analysis) ==
    [kind      |-> "assessment",
     status    |-> "danger",
     riskScore |-> IF analysis.final_score = 0 THEN 90 ELSE analysis.final_score,
     primary   |-> NoResult,
     secondary |-> NoResult,
     source    |-> "client-ai",
     error     |-> NoError]

\* handleSafeImage: status 'safe', riskScore: analysis.final_score || 0.1
handleSafeImage(analysis) ==
    [kind      |-> "assessment",
     status    |-> "safe",
     riskScore |-> IF analysis.final_score = 0 THEN 10 ELSE analysis.final_score,
     primary   |-> NoResult,
     secondary |-> NoResult,
     source    |-> "client-ai",
     error     |-> NoError]

\* handleMessage dispatching VERIFY_WITH_AI: handleVerification up to the image
VerifyStart(r) ==
    /\ pc[r] = "idle"
    /\ IF ~settings.enabled
       THEN Finish(r, ErrorOnly(Msg("disabled")))
       ELSE pc' = [pc EXCEPT ![r] = "aiImage"] /\ UNCHANGED resp
    /\ UNCHANGED <<ready, settings, cache, hashCache, accessCount, errorCounts, errorHistory,
                   url, primary, result, snap, trace>>
    /\ UNCHANGED otherVars

\* no image URL in the message and none found in the post
VerifyNoImage(r) ==
    /\ pc[r] = "aiImage"
    /\ Finish(r, ErrorResult("unchecked", Msg("image")))
    /\ UNCHANGED <<ready, settings, cache, hashCache, accessCount, errorCounts, errorHistory,
                   url, primary, result, snap, trace>>
    /\ UNCHANGED otherVars

\* getEnabledAIApi() finds no API with a key
VerifyNoApi(r) ==
    /\ pc[r] = "aiImage"
    /\ Finish(r, ErrorResult("error", Msg("API")))
    /\ UNCHANGED <<ready, settings, cache, hashCache, accessCount, errorCounts, errorHistory,
                   url, primary, result, snap, trace>>
    /\ UNCHANGED otherVars

\* analyzeWithAI throws: the catch clause of handleVerification
VerifyFails(r) ==
    /\ pc[r] = "aiImage"
    /\ Finish(r, ErrorResult("error", Msg("AI")))
    /\ UNCHANGED <<ready, settings, cache, hashCache, accessCount, errorCounts, errorHistory,
                   url, primary, result, snap, trace>>
    /\ UNCHANGED otherVars

\* analyzeWithAI answers: a safe image is returned at once, a harmful one is
\* reported to the server first
VerifyAnalyzed(r, analysis) ==
    /\ pc[r] = "aiImage"
    /\ IF analysis.is_harmful
       THEN /\ result' = [result EXCEPT ![r] = handleHarmfulImage(analysis)]
            /\ pc' = [pc EXCEPT ![r] = "aiReport"]
            /\ UNCHANGED resp
       ELSE /\ Finish(r, handleSafeImage(analysis))
            /\ UNCHANGED result
    /\ UNCHANGED <<ready, settings, cache, hashCache, accessCount, errorCounts, errorHistory,
                   url, primary, snap, trace>>
    /\ UNCHANGED otherVars

\* nsfwServer.reportV2 has answered or failed: the result is returned either way
VerifyReported(r) ==
    /\ pc[r] = "aiReport"
    /\ Finish(r, result[r])
    /\ UNCHANGED <<ready, settings, cache, hashCache, accessCount, errorCounts, errorHistory,
                   url, primary, result, snap, trace>>
    /\ UNCHANGED otherVars

VerifyInit ==
    /\ ready = TRUE
    /\ settings \in {[DEFAULT_SETTINGS EXCEPT !.thresholds = t] : t \in ThresholdChoices}
    /\ cache = EmptyCache
    /\ hashCache = [u \in Urls |-> NoHash]
    /\ accessCount = [u \in Urls |-> 0]
    /\ errorCounts = [k \in ErrorTypes \X Urls |-> 0]
    /\ errorHistory = <<>>
    /\ pc = [r \in Requests |-> "idle"]
    /\ url = [r \in Requests |-> "post"]
    /\ primary = [r \in Requests |-> NoPrimary]
    /\ result = [r \in Requests |-> NoResponse]
    /\ snap = [r \in Requests |-> EmptyCache]
    /\ resp = [r \in Requests |-> NoResponse]
    /\ trace = [r \in Requests |-> NoTrace]
    /\ FetchQuiet
    /\ HandlersQuiet
    /\ CleanupQuiet
    /\ TimeoutQuiet
    /\ FlightQuiet
    /\ ServiceQuiet

VerifyNext ==
    \E r \in Requests :
        \/ VerifyStart(r)
        \/ VerifyNoImage(r)
        \/ VerifyNoApi(r)
        \/ VerifyFails(r)
        \/ \E analysis \in Analyses : VerifyAnalyzed(r, analysis)
        \/ VerifyReported(r)

VerifySpec == VerifyInit /\ [][VerifyNext]_allVars

\* C29: in every result returned with one of the three statuses, the status is
\* the one determineStatus derives from the riskScore of that result and the
\* configured thresholds.
C29_StatusFromScore ==
    \A r \in Requests :
        pc[r] = "done" /\ resp[r].status \in {"safe", "caution", "danger"} =>
            resp[r].status = determineStatus(resp[r].riskScore, settings.thresholds)


(***************************************************************************)
(* Content script: page events while a list is being processed             *)
(***************************************************************************)
\* processPostRow finds no cached result for a row with an image, autoScan is
\* on: requestImageAnalysis sends ANALYZE_IMAGE and the row waits for the answer
RowRequests(r) ==
    /\ postRows[r] = "running"
    /\ postRows' = [postRows EXCEPT ![r] = "requesting"]
    /\ UNCHANGED <<flights, listRun>>
    /\ UNCHANGED <<vars, fetchVars, handler, cleanupVars, timeoutVars, serviceVars>>

\* the answer arrives: it is cached and shown, or the catch clause shows the error
RowAnswered(r) ==
    /\ postRows[r] = "requesting"
    /\ postRows' = [postRows EXCEPT ![r] = "done"]
    /\ UNCHANGED <<flights, listRun>>
    /\ UNCHANGED <<vars, fetchVars, handler, cleanupVars, timeoutVars, serviceVars>>

\* the MutationObserver sees a post row added to the table and calls
\* processPostRow(node) for it, whatever is being processed
NodeAdded(r) ==
    /\ postRows[r] = "none"
    /\ r > listRun.n
    /\ r <= listRun.n + MaxAdded
    /\ postRows' = [postRows EXCEPT ![r] = "running"]
    /\ UNCHANGED <<flights, listRun>>
    /\ UNCHANGED <<vars, fetchVars, handler, cleanupVars, timeoutVars, serviceVars>>

PageNext ==
    \/ StartList
    \/ \E r \in Rows : RowDone(r)
    \/ \E r \in Rows : RowFails(r)
    \/ NextBatch
    \/ ListThrows
    \/ \E r \in Rows : RowRequests(r)
    \/ \E r \in Rows : RowAnswered(r)
    \/ \E r \in Rows : NodeAdded(r)

PageSpec == ListInit /\ [][PageNext]_allVars

\* the ANALYZE_IMAGE requests of the content script that are not yet answered
InFlight == {r \in Rows : postRows[r] = "requesting"}

\* C31: at any moment the content script has at most BATCH_SIZE (5)
\* classification requests in flight, whatever page events occur.
C31_InFlightAtMostBatch == Cardinality(InFlight) <= 5


(***************************************************************************)
(* AdvancedCacheManager: the periodic sweep timer                          *)
(***************************************************************************)
\* a stop that forgets the field and leaves the timer running
clearTimer_fieldOnly(scheduled, timerId) == scheduled

\* ResourceManager.clearTimer: clearTimeout, clearInterval
clearTimer(scheduled, timerId) == {t \in scheduled : t.id # timerId}

\* startPeriodicCleanup of manager m: an existing timer is cleared, a new
\* interval is set and kept in cleanupTimer
startPeriodicCleanup(ms, ts, m) ==
    LET timerId == ts.issued + 1
        cleared == IF ms[m].cleanupTimer # 0
                   THEN clearTimer(ts.scheduled, ms[m].cleanupTimer)
                   ELSE ts.scheduled
    IN  [managers |-> [ms EXCEPT ![m].cleanupTimer = timerId],
         timers   |-> [ts EXCEPT !.issued = timerId,
                                 !.scheduled = cleared \cup {[id |-> timerId, owner |-> m]}]]

\* stopPeriodicCleanup of manager m
stopPeriodicCleanup(ms, ts, m) ==
    IF ms[m].cleanupTimer # 0
    THEN [managers |-> [ms EXCEPT ![m].cleanupTimer = 0],
          timers   |-> [ts EXCEPT !.scheduled = clearTimer(@, ms[m].cleanupTimer)]]
    ELSE [managers |-> ms, timers |-> ts]

\* initialize(): cacheManager = new AdvancedCacheManager(currentSettings), whose
\* constructor starts the periodic sweep; the manager made before is dropped
\* as it is
InitializeWorker ==
    /\ Len(managers) < MaxInits
    /\ timers.issued < MaxTimerIds
    /\ LET made    == Append(managers, [cleanupTimer |-> 0])
           started == startPeriodicCleanup(made, timers, Len(made))
       IN  /\ managers' = started.managers
           /\ timers' = started.timers
    /\ accessCount' = [u \in DOMAIN accessCount |-> 0]
    /\ lastAccess' = [u \in DOMAIN lastAccess |-> 0]
    /\ UNCHANGED <<ready, settings, cache, hashCache, errorCounts, errorHistory,
                   pc, url, primary, result, snap, resp, trace>>
    /\ UNCHANGED <<sweep, writers, health>>
    /\ UNCHANGED <<fetchVars, handler, timeoutVars, flightVars>>

\* handleUpdateSettings: cacheManager.updateSettings starts the sweep again
UpdateSettingsTimer ==
    /\ managers # <<>>
    /\ timers.issued < MaxTimerIds
    /\ LET started == startPeriodicCleanup(managers, timers, Len(managers))
       IN  /\ managers' = started.managers
           /\ timers' = started.timers
    /\ UNCHANGED <<vars, writers, health>>
    /\ UNCHANGED <<fetchVars, handler, cleanupVars, timeoutVars, flightVars>>

\* stopPeriodicCleanup() of a manager
StopPeriodicCleanup(m) ==
    /\ LET stopped == stopPeriodicCleanup(managers, timers, m)
       IN  /\ managers' = stopped.managers
           /\ timers' = stopped.timers
    /\ UNCHANGED <<vars, writers, health>>
    /\ UNCHANGED <<fetchVars, handler, cleanupVars, timeoutVars, flightVars>>

\* cleanup() of the current manager: the sweep is stopped, the index is emptied
Cleanup ==
    /\ managers # <<>>
    /\ LET stopped == stopPeriodicCleanup(managers, timers, Len(managers))
       IN  /\ managers' = stopped.managers
           /\ timers' = stopped.timers
    /\ accessCount' = [u \in DOMAIN accessCount |-> 0]
    /\ lastAccess' = [u \in DOMAIN lastAccess |-> 0]
    /\ UNCHANGED <<ready, settings, cache, hashCache, errorCounts, errorHistory,
                   pc, url, primary, result, snap, resp, trace>>
    /\ UNCHANGED <<sweep, writers, health>>
    /\ UNCHANGED <<fetchVars, handler, timeoutVars, flightVars>>

\* a scheduled interval elapses: the smartCleanup of its manager is started
TimerTick(t) ==
    /\ t \in timers.scheduled
    /\ timers.ticks < MaxTicks
    /\ timers' = [timers EXCEPT !.ticks = @ + 1, !.owner = t.owner]
    /\ UNCHANGED <<vars, managers, writers, health>>
    /\ UNCHANGED <<fetchVars, handler, cleanupVars, timeoutVars, flightVars>>

TimerIds == 1..MaxTimerIds

TimerNext ==
    \/ InitializeWorker
    \/ UpdateSettingsTimer
    \/ \E m \in 1..MaxInits : m <= Len(managers) /\ StopPeriodicCleanup(m)
    \/ Cleanup
    \/ \E id \in TimerIds, m \in 1..MaxInits : TimerTick([id |-> id, owner |-> m])

TimerSpec == FlightInit /\ [][TimerNext]_allVars

SweepStarted == timers'.ticks = timers.ticks + 1

\* C32: once a manager is stopped (stopPeriodicCleanup or cleanup), none of
\* its sweeps remains scheduled and no further sweep of it is started.
C32_StoppedManagerIsQuiet ==
    [][/\ \A m \in 1..Len(managers') :
             managers'[m].cleanupTimer = 0 =>
                 \A t \in timers'.scheduled : t.owner # m
       /\ SweepStarted => managers[timers'.owner].cleanupTimer # 0]_allVars

\* a manager that swept, was stopped, and whose timer is gone while another
\* timer is still scheduled
C32_Witness ==
    /\ Len(managers) >= 2
    /\ managers[Len(managers)].cleanupTimer = 0
    /\ timers.owner = Len(managers)
    /\ timers.ticks = 1
    /\ timers.scheduled # {}

\* C39: after any sequence of initialisations, settings updates and start and
\* stop calls at most one periodic sweep timer is scheduled.
C39_OneSweepTimer == Cardinality(timers.scheduled) <= 1


(***************************************************************************)
(* The cache across re-initialisations of the worker                       *)
(***************************************************************************)
RestartNext == StoreNext \/ InitializeWorker

RestartSpec == SweepInit /\ [][RestartNext]_allVars

\* C40: after any sequence of put, get, sweep and re-initialisation every
\* entry held in the store is tracked in the access index (accessCount and
\* lastAccess).
C40_StoredEntriesTracked ==
    \A u \in CachedUrls : cache[u].present => accessCount[u] > 0 /\ lastAccess[u] > 0

(***************************************************************************)
(* The store fails: chrome.storage.local.get rejects under getStorage      *)
(* (storage.js 16-24), which catches the error and returns the default     *)
(* value; CacheManager.getAnalysisResult (701-721) has a catch of its own   *)
(***************************************************************************)
getStorageCatch_rethrows(defaultValue) == [thrown |-> TRUE, value |-> defaultValue]

\* the catch clause of getStorage: the error is logged and the default returned
getStorageCatch(defaultValue) == [thrown |-> FALSE, value |-> defaultValue]

\* handleAnalyzeImage when the read of the cache object fails: the lookup is
\* made in the default (empty) object, so it is a miss
ReceiveUnreadable(r, u) ==
    /\ pc[r] = "idle"
    /\ ready
    /\ settings.enabled
    /\ settings.cacheEnabled
    /\ url' = [url EXCEPT ![r] = u]
    /\ LET got    == getStorageCatch(EmptyCache)
           cached == getAnalysisResult(got.value, settings, u)
       IN  /\ trace' = [trace EXCEPT ![r].hit = cached.present /\ ~got.thrown,
                                     ![r].readFailed = TRUE]
           /\ IF got.thrown
              THEN /\ Finish(r, handleMessageCatch(Msg("storage")))
                   /\ UNCHANGED accessCount
              ELSE /\ accessCount' = countAccess(accessCount, cached.present, u)
                   /\ IF cached.present
                      THEN Finish(r, cached.result)
                      ELSE /\ pc' = [pc EXCEPT ![r] = "fetchPost"]
                           /\ UNCHANGED resp
    /\ UNCHANGED <<ready, settings, cache, hashCache, errorCounts, errorHistory,
                   primary, result, snap>>
    /\ UNCHANGED otherVars

\* setCachedResult when its getCache read fails: the entry is added to the
\* default (empty) object
StoreReadUnreadable(r) ==
    /\ pc[r] = "store"
    /\ settings.cacheEnabled
    /\ LET got == getStorageCatch(EmptyCache)
       IN  /\ trace' = [trace EXCEPT ![r].readFailed = TRUE]
           /\ IF got.thrown
              THEN \* setAnalysisResult (730-741) catches and the result is returned
                   /\ accessCount' = initAccess(accessCount, url[r])
                   /\ Finish(r, result[r])
                   /\ UNCHANGED snap
              ELSE /\ snap' = [snap EXCEPT ![r] = got.value]
                   /\ pc' = [pc EXCEPT ![r] = "storeWrite"]
                   /\ UNCHANGED <<accessCount, resp>>
    /\ UNCHANGED <<ready, settings, cache, hashCache, errorCounts, errorHistory,
                   url, primary, result>>
    /\ UNCHANGED otherVars

FaultNext ==
    \/ Next
    \/ \E r \in Requests, u \in Urls : ReceiveUnreadable(r, u)
    \/ \E r \in Requests : StoreReadUnreadable(r)

FaultSpec == Init /\ [][FaultNext]_vars

StoreFailed(r) == trace[r].readFailed \/ trace[r].writeFailed

\* C33: a request whose cache read failed goes on as a miss, a request whose
\* cache write failed skips it, and unless something else raised an exception
\* the request ends with a classification result, never an error response
C33_StoreFailureNotFatal ==
    \A r \in Requests :
        /\ trace[r].readFailed => ~trace[r].hit /\ pc[r] # "idle"
        /\ trace[r].writeFailed => pc[r] = "done" /\ resp[r] = result[r]
        /\ (pc[r] = "done" /\ StoreFailed(r) /\ trace[r].raised = NoError) =>
               /\ resp[r].kind = "assessment"
               /\ resp[r].status \in {"safe", "caution", "danger", "unchecked"}

C33_Witness ==
    \E r \in Requests :
        /\ pc[r] = "done"
        /\ trace[r].readFailed
        /\ trace[r].writeFailed
        /\ trace[r].raised = NoError
        /\ resp[r].status = "danger"

(***************************************************************************)
(* The diagnostic history of a manager that has handled errors before:     *)
(* ErrorRecoveryManager.recordError (460-478) under handleError (338-365)   *)
(***************************************************************************)
\* records left by earlier calls, made for other posts and of types the calls
\* followed here do not produce
EarlierLengths == {0, 98}

EarlierTypes == {"RateLimitError", "IndexedDBError"}

EarlierType(i) == IF i % 2 = 1 THEN "RateLimitError" ELSE "IndexedDBError"

EarlierErrors == {[i \in 1..n |-> EarlierType(i)] : n \in EarlierLengths}

LogInit ==
    /\ ready = TRUE
    /\ settings = DEFAULT_SETTINGS
    /\ cache \in [Urls -> StoredEntries]
    /\ hashCache = [u \in Urls |-> NoHash]
    /\ accessCount = [u \in Urls |-> 0]
    /\ errorCounts = [k \in ErrorTypes \X Urls |-> 0]
    /\ errorHistory \in EarlierErrors
    /\ pc = [r \in Requests |-> "idle"]
    /\ url = [r \in Requests |-> "post"]
    /\ primary = [r \in Requests |-> NoPrimary]
    /\ result = [r \in Requests |-> NoResponse]
    /\ snap = [r \in Requests |-> EmptyCache]
    /\ resp = [r \in Requests |-> NoResponse]
    /\ trace = [r \in Requests |-> NoTrace]
    /\ FetchQuiet
    /\ HandlersQuiet
    /\ CleanupQuiet
    /\ TimeoutQuiet
    /\ FlightQuiet
    /\ ServiceQuiet

\* the records of the calls followed here
NewRecords ==
    Cardinality({i \in 1..Len(errorHistory) : errorHistory[i] \notin EarlierTypes})

LogCall(h, error) ==
    /\ handler[h].pc \in {"idle", "returned"}
    /\ NewRecords < MaxCalls
    /\ HandleCall(h, error)

LogNext ==
    \/ \E h \in Handlers, error \in RecoveryErrors : LogCall(h, error)
    \/ \E h \in Handlers : HandleFinish(h)

LogSpec == LogInit /\ [][LogNext]_allVars

\* the last n records of a sequence, or all of them when it is shorter
LastOf(seq, n) ==
    IF Len(seq) > n THEN SubSeq(seq, Len(seq) - n + 1, Len(seq)) ELSE seq

\* C34: every handleError call (the step that raises a counter) appends its
\* error to the history, the call that answers fail because the ceiling was
\* exceeded included, and the history is the last 100 records: past 100 the
\* oldest is dropped
C34_EveryErrorLogged ==
    [][\A k \in DOMAIN errorCounts :
          errorCounts'[k] > errorCounts[k] =>
              /\ errorHistory' = LastOf(Append(errorHistory, k[1]), 100)
              /\ Len(errorHistory') <= 100]_allVars

C34_Witness ==
    /\ Len(errorHistory) = 100
    /\ errorHistory[97] \notin EarlierTypes
    /\ \E h \in Handlers :
           /\ handler[h].pc = "returned"
           /\ handler[h].res.action = "fail"
           /\ handler[h].count > maxRetries
           /\ errorHistory[100] = classifyError(handler[h].error)

(***************************************************************************)
(* ErrorRecoveryManager.getHealthStatus (528-547)                          *)
(***************************************************************************)
\* handleError calls followed before and between the health reports
MaxRecent == 2

\* the records an earlier run of calls can have left, at most
MaxEarlier == 11

\* the two comparisons with >= in place of >
statusOf_atLeast(errorRate) ==
    IF errorRate >= 80 THEN "critical"
    ELSE IF errorRate >= 50 THEN "degraded"
    ELSE "healthy"

\* recentErrorRate is recentErrors.length / 10; it is kept here in percent, so
\* that 0.5 is 50 and 0.8 is 80
statusOf(errorRate) ==
    IF errorRate > 80 THEN "critical"
    ELSE IF errorRate > 50 THEN "degraded"
    ELSE "healthy"

\* errorCounts.size: the keys present
activeRetries(counts) == Cardinality({k \in DOMAIN counts : counts[k] > 0})

getHealthStatus(hist, counts) ==
    LET recentErrors    == LastOf(hist, 10)
        recentErrorRate == (100 * Len(recentErrors)) \div 10
    IN  [status        |-> statusOf(recentErrorRate),
         totalErrors   |-> Len(hist),
         recentErrors  |-> Len(recentErrors),
         errorRate     |-> recentErrorRate,
         activeRetries |-> activeRetries(counts)]

GetHealthStatus ==
    /\ health' = getHealthStatus(errorHistory, errorCounts)
    /\ UNCHANGED <<vars, managers, timers, writers>>
    /\ UNCHANGED <<fetchVars, handler, cleanupVars, timeoutVars, flightVars>>

HealthCall(h, error) ==
    /\ handler[h].pc \in {"idle", "returned"}
    /\ NewRecords < MaxRecent
    /\ HandleCall(h, error)

HealthInit ==
    /\ ready = TRUE
    /\ settings = DEFAULT_SETTINGS
    /\ cache = EmptyCache
    /\ hashCache = [u \in Urls |-> NoHash]
    /\ accessCount = [u \in Urls |-> 0]
    /\ errorCounts = [k \in ErrorTypes \X Urls |-> 0]
    /\ errorHistory \in {[i \in 1..n |-> EarlierType(i)] : n \in 0..MaxEarlier}
    /\ pc = [r \in Requests |-> "idle"]
    /\ url = [r \in Requests |-> "post"]
    /\ primary = [r \in Requests |-> NoPrimary]
    /\ result = [r \in Requests |-> NoResponse]
    /\ snap = [r \in Requests |-> EmptyCache]
    /\ resp = [r \in Requests |-> NoResponse]
    /\ trace = [r \in Requests |-> NoTrace]
    /\ FetchQuiet
    /\ HandlersQuiet
    /\ CleanupQuiet
    /\ TimeoutQuiet
    /\ FlightQuiet
    /\ ServiceQuiet

HealthNext ==
    \/ \E h \in Handlers, error \in RecoveryErrors : HealthCall(h, error)
    \/ \E h \in Handlers : HandleFinish(h)
    \/ GetHealthStatus

HealthSpec == HealthInit /\ [][HealthNext]_allVars

\* the records among the 10 most recent entries, in percent of 10
RecentRate == 10 * Len(LastOf(errorHistory, 10))

\* C35: a health report is critical when the error rate over the 10 most
\* recent entries is above 80%, degraded when it is above 50% and not above
\* 80%, and healthy otherwise
C35_HealthFromRecentRate ==
    [][health' # health =>
          /\ RecentRate > 80 => health'.status = "critical"
          /\ (RecentRate > 50 /\ RecentRate <= 80) => health'.status = "degraded"
          /\ RecentRate <= 50 => health'.status = "healthy"]_allVars

C35_Witness ==
    /\ health.status = "degraded"
    /\ health.recentErrors = 8
    /\ Len(errorHistory) = 8
    /\ NewRecords > 0

\* C37: the result the fail-open fallback produced (the hash check could not be
\* completed) is never written to the cache
C37_FallbackNotCached ==
    \A u \in Urls : cache[u].present => cache[u].result.source # "hash-check-failed"

(***************************************************************************)
(* Two setAnalysisResult calls at once: storage.js setCachedResult          *)
(* (173-191) reads the whole cache object, adds its entry and writes the   *)
(* object back, with an await between the read and the write               *)
(***************************************************************************)
\* first half: getCache returns the stored object
WriterReads(w, key) ==
    /\ writers[w].pc = "idle"
    /\ settings.cacheEnabled
    /\ writers' = [writers EXCEPT ![w] = [pc |-> "read", key |-> key, read |-> cache]]
    /\ UNCHANGED <<vars, managers, timers, health>>
    /\ UNCHANGED <<fetchVars, handler, cleanupVars, timeoutVars, flightVars>>

\* second half: the object that was read, with the entry added, replaces the
\* stored one (or setStorage fails and answers false); then
\* AdvancedCacheManager.setAnalysisResult gives the key its place in the index
WriterWrites(w, stored) ==
    LET key == writers[w].key
    IN  /\ writers[w].pc = "read"
        /\ cache' = IF stored
                    THEN [writers[w].read EXCEPT ![key] = StoredEntry]
                    ELSE cache
        /\ accessCount' = initAccess(accessCount, key)
        /\ lastAccess' = IF accessCount[key] = 0
                         THEN [lastAccess EXCEPT ![key] = now]
                         ELSE lastAccess
        /\ writers' = [writers EXCEPT ![w].pc = IF stored THEN "written" ELSE "failed"]
        /\ UNCHANGED <<ready, settings, hashCache, errorCounts, errorHistory>>
        /\ UNCHANGED <<pc, url, primary, result, snap, resp, trace>>
        /\ UNCHANGED <<sweep, managers, timers, health>>
        /\ UNCHANGED <<fetchVars, handler, timeoutVars, flightVars>>

WriteNext ==
    \/ \E w \in Writers, key \in PutKeys : WriterReads(w, key)
    \/ \E w \in Writers, stored \in BOOLEAN : WriterWrites(w, stored)

WriteSpec == SweepInit /\ [][WriteNext]_allVars

\* C38: once two cache writes for different identifiers have both completed,
\* both entries are present in the stored cache
C38_BothEntriesStored ==
    \A w1 \in Writers, w2 \in Writers :
        ( /\ writers[w1].pc = "written"
          /\ writers[w2].pc = "written"
          /\ writers[w1].key # writers[w2].key ) =>
            /\ cache[writers[w1].key].present
            /\ cache[writers[w2].key].present

(***************************************************************************)
(* Progress of a classification request.  The steps the worker takes by    *)
(* itself (the cache lookups, the two halves of the cache write) are       *)
(* continuations the event loop runs once they are ready: they are weakly  *)
(* fair.  The answers of the post page, of the fingerprint                  *)
(* backend and of the deep-analysis backend come from fetch calls made     *)
(* with no signal and no timer (part_002 1025-1066, hashChecker.js 21-59,  *)
(* nsfwjsServer.js 69-108): nothing makes them happen                      *)
(***************************************************************************)
WorkerProgress(r) ==
    /\ WF_vars(HashCached(r))
    /\ WF_vars(HashMiss(r))
    /\ WF_vars(StoreRead(r))
    /\ WF_vars(\E stored \in BOOLEAN : StoreWrite(r, stored))

LiveSpec == Init /\ [][Next]_vars /\ \A r \in Requests : WorkerProgress(r)

\* the request is waiting for the answer of a fetch
AwaitingBackend(r) == pc[r] \in {"fetchPost", "hashCall", "deep"}

\* with that fairness a request is answered or comes to wait for a fetch
LocalStepsProgress ==
    \A r \in Requests : (pc[r] # "idle") ~> (pc[r] = "done" \/ AwaitingBackend(r))

\* C36: every classification request that was received is answered in the end
C36_EveryCallResolves ==
    \A r \in Requests : (pc[r] # "idle") ~> (pc[r] = "done")

====
